---- MODULE Spec2Model ----
(***************************************************************************)
(* A model of the relay coordination core of src/src/relay.py:            *)
(* IRCRelayClient, DiscordRelayBot and RelayCoordinator.                   *)
(*                                                                         *)
(* Strings are sequences of one-character strings, so that strip(),        *)
(* casefold() and the f-strings are computed, not assumed.                 *)
(* An asyncio task is a record with a pc field; one action runs a task    *)
(* from one suspension point (an await that really suspends) to the next.  *)
(***************************************************************************)
EXTENDS Integers, Sequences, FiniteSets, TLC

(* ------------------------------ bounds -------------------------------- *)

\* The largest number of configured IRC networks explored.
MaxNetworks == 2

\* IRCRelayClient objects constructed by _recreate_irc_client during one run.
MaxRecreates == 1

\* Successful registrations (on_connect) counted per network.
MaxConnects == 2

\* send_to_irc calls made during one run.
MaxMsgs == 2

\* IRC messages delivered to on_message during one run.
MaxIrcMsgs == 2

\* on_ready events of the gateway during one run.
MaxReady == 2
MaxRestartCalls == 3
MaxStops == 2
MaxAnnounce == 2
MaxRaw == 2

\* record_error calls made during one run of the health specification.
MaxErrors == 2

\* The clock advances by TimeStep seconds, up to MaxTime.
TimeStep == 20
MaxTime == 81

(* ------------------------- program constants -------------------------- *)

\* Optional[float] = None for _last_error_time and _last_message_time.
None == -1

\* The error-count threshold and the recent-error window of get_health_stats.
ErrorThreshold == 100
RecentErrorWindow == 60

\* The backoff sleeps of the supervisor loop.
BackoffTransport == 5
BackoffReadConflict == 2

(* ------------------------------ strings ------------------------------- *)

IsSpace(c) == c = " " \/ c = "\n"

RECURSIVE LStrip(_)
LStrip(s) == IF s # <<>> /\ IsSpace(Head(s)) THEN LStrip(Tail(s)) ELSE s

RECURSIVE RStrip(_)
RStrip(s) ==
    IF s # <<>> /\ IsSpace(s[Len(s)]) THEN RStrip(SubSeq(s, 1, Len(s) - 1)) ELSE s

\* str.strip()
Strip(s) == RStrip(LStrip(s))

FoldChar(c) ==
    CASE c = "A" -> "a"
      [] c = "C" -> "c"
      [] c = "H" -> "h"
      [] c = "R" -> "r"
      [] OTHER -> c

\* str.casefold() on the alphabet used here
Casefold(s) == [k \in 1..Len(s) |-> FoldChar(s[k])]

DigitChars == <<"1", "2", "3", "4", "5", "6", "7", "8", "9">>

(* --------------------------- configuration ---------------------------- *)

\* IRCNetworkConfig number k of the environment: distinct servers, a
\* mixed-case channel name, one nick.
NetworkConfig(k) ==
    [server  |-> <<"i", "r", "c", DigitChars[k]>>,
     channel |-> <<"#", "C", "h", DigitChars[k]>>,
     nick    |-> <<"r", "e", "l", "a", "y">>]

\* Settings.irc_networks with n networks (validate() requires n >= 1).
IrcNetworks(n) == [k \in 1..n |-> NetworkConfig(k)]

\* The sentinel of on_discord_ready and _ensure_discord_channel, and the id
\* of a channel of the guild.
PlaceholderChannelId == "123456789012345678"
RelayChannelId == "400000000000000001"

\* Optional[str] = None for discord_webhook_url
NoUrl == <<>>
WebhookUrl == <<"u", "r", "l">>

\* What the configured channel id is on Discord: a text channel, another
\* kind of channel, no channel, or a channel the bot may not see.
ChannelKinds == {"text", "voice", "missing", "forbidden"}

\* Settings, with the state of the configured channel on Discord.
SettingsWith(n, channel_id, channel_kind, url) ==
    [irc_networks        |-> IrcNetworks(n),
     discord_channel_id  |-> channel_id,
     discord_webhook_url |-> url,
     channel_kind        |-> channel_kind]

VARIABLES
    settings,            \* Settings: irc_networks, discord_channel_id, discord_webhook_url
    heap,                \* the IRCRelayClient objects ever constructed, by object id
    irc_clients,         \* RelayCoordinator.irc_clients: a list of object ids
    sup,                 \* the _start_irc_client task of each network
    irc_reconnect_count, \* RelayCoordinator._irc_reconnect_count
    error_count,         \* RelayCoordinator._error_count
    last_error_time,     \* RelayCoordinator._last_error_time
    message_count,       \* RelayCoordinator._message_count
    now,                 \* time.time()
    connects,            \* history: successful on_connect events per network
    drops,               \* history: registered connections lost per network
    sendcall,            \* the send_to_irc call in progress
    next_msg,            \* the id given to the next message sent to IRC
    irc_sent,            \* history: per network, the messages written to it
    dropped,             \* history: messages of calls that found nothing connected
    discord_ready,       \* discord_bot.is_ready()
    health,              \* what the last get_health_stats call returned
    discord_channel,     \* RelayCoordinator._discord_channel
    discord_webhook,     \* RelayCoordinator._discord_webhook
    lock,                \* RelayCoordinator._lock: the holder, then the waiters
    irc_task,            \* per network, the on_message call in progress
    irc_in,              \* history: the arguments of the last on_message call
    next_irc,            \* the id given to the next IRC message delivered
    server_webhooks,     \* Discord: the webhooks of the channel
    discord_posts,       \* Discord: the messages posted to the channel
    irc_done,            \* history: how the handling of each IRC message ended
    ready_task,          \* the on_ready events of the gateway, in order
    discord_reconnect_count, \* RelayCoordinator._discord_reconnect_count
    slash_synced,        \* RelayCoordinator._slash_synced
    online_posts,        \* Discord: the "IRC relay is online." messages posted
    slash_syncs,         \* history: tree.sync() calls that succeeded
    restart_task,        \* RelayCoordinator._restart_task and its shutdown() call
    restart_calls,       \* history: request_restart calls made
    restart_tasks,       \* history: restart tasks created
    shutdowns,           \* history: shutdown() calls started by restart tasks
    execs,               \* history: os.execv calls made
    discord_closed,      \* discord_bot.is_closed()
    http_open,           \* the aiohttp session of discord_bot.http is open
    stopcall,            \* the stop_irc call in progress
    announce,            \* the announce_football_event call in progress
    raw,                 \* history: the last on_raw call and how it ended
    discord_in,          \* history: the message of the last Discord on_message call
    chunk,               \* a call of chunk_text: its arguments and its result
    uptime,              \* a call of format_uptime: its argument and its result
    user_warnings,       \* ConfigStore._user_warnings: guild key -> user key -> list
    warncall,            \* history: the last call on the warnings and its result
    moderation_logs,     \* ConfigStore._moderation_logs
    log_added,           \* history: the number of add_moderation_log calls
    logcall,             \* history: the last get_moderation_logs call and its result
    active_mutes,        \* ModerationCog._active_mutes: member id -> task
    mute_tasks           \* the timed-unmute tasks created so far

\* The IRC -> Discord direction.
inbound_vars == <<discord_channel, discord_webhook, lock, irc_task, irc_in,
                  next_irc,
                  server_webhooks, discord_posts, irc_done>>

\* The gateway session: ready events, command sync.
session_vars == <<ready_task, discord_reconnect_count, slash_synced,
                  online_posts, slash_syncs>>

\* Restart and shutdown.
lifecycle_vars == <<restart_task, restart_calls, restart_tasks, shutdowns,
                    execs, discord_closed, http_open>>

\* The calls of the coordinator's other operations.
call_vars == <<stopcall, announce, raw, discord_in>>

\* The warnings of the ConfigStore.
store_vars == <<user_warnings, warncall>>

\* The moderation logs of the ConfigStore.
log_vars == <<moderation_logs, log_added, logcall>>

\* The timed mutes of the ModerationCog.
mute_vars == <<active_mutes, mute_tasks>>

\* The calls of the helpers of utils.py, the store and the cogs.
util_vars == <<chunk, uptime, store_vars, log_vars, mute_vars>>

\* The calls of the operations outside the relay loop.
ops_vars == <<call_vars, util_vars>>

\* The Discord side and the observers of the coordinator.
discord_vars == <<discord_ready, health, inbound_vars, session_vars,
                  lifecycle_vars, ops_vars>>

vars == <<settings, heap, irc_clients, sup, irc_reconnect_count, error_count,
          last_error_time, message_count, now, connects, drops, sendcall,
          next_msg, irc_sent, dropped, discord_vars>>

N == Len(settings.irc_networks)
Nets == 1..N

(* ----------------------------- IRC client ----------------------------- *)

\* IRCRelayClient.__init__; own_connect tells that a connect started by the
\* client itself is in flight.
NewClient(network_config) ==
    [network_config   |-> network_config,
     target_channel   |-> network_config.channel,
     is_first_connect |-> TRUE,
     connected        |-> FALSE,
     registered       |-> FALSE,
     nickname         |-> network_config.nick,
     own_connect      |-> FALSE]

\* RelayCoordinator.record_error
RecordError ==
    /\ error_count' = error_count + 1
    /\ last_error_time' = now

\* RelayCoordinator.record_irc_reconnect
RecordIrcReconnect(count) == count + 1

\* A slip: every on_connect counts as a reconnect.
ReconnectCountAlways(client, count) == RecordIrcReconnect(count)

\* The counter after IRCRelayClient.on_connect ran on `client`.
ReconnectCountAfterConnect(client, count) ==
    IF ~client.is_first_connect THEN RecordIrcReconnect(count) ELSE count

\* A send_to_irc call: pos is the index whose client.message() is awaited.
\* History of the call: seen (what the loop did at each index), missed (it
\* passed a connected client without sending), escaped (it raised).
NoSend == [pc |-> "idle", msg |-> 0, text |-> <<>>, pos |-> 0,
           sent_to_any |-> FALSE, seen |-> <<>>, missed |-> FALSE,
           escaped |-> FALSE]

IdleSup(id) == [pc |-> "start", client |-> id, delay |-> 0]

\* Optional[discord.TextChannel] = None, and the resolved channel
NoChannel == "None"
RelayChannel == "TextChannel"

\* Optional[discord.Webhook] = None; Webhook.from_url(...); a webhook of the
\* channel
NoWebhook == [kind |-> "none", id |-> 0]
UrlWebhook == [kind |-> "url", id |-> 0]
ChannelWebhook(id) == [kind |-> "channel", id |-> id]

\* No on_message call yet at any connection.
NoCall == [net |-> 0, target |-> <<>>, source |-> <<>>]

\* No on_message call in progress at a connection; forbidden tells which
\* call of _ensure_discord_webhook raised discord.Forbidden (history).
IdleTask ==
    [pc |-> "idle", msg |-> 0,
     author |-> <<>>, network_name |-> <<>>, content |-> <<>>,
     username |-> <<>>, webhook |-> NoWebhook, forbidden |-> "no"]

\* An on_ready event that has not happened yet; cause tells how the
\* resolution of the channel ended in on_discord_ready (history).
NoReady == [pc |-> "none", cause |-> "none"]

\* No get_health_stats call yet; calls flips at each call (history).
NoHealth == [calls |-> 0, health_status |-> "none", discord_connected |-> FALSE,
             irc_connected |-> FALSE]

\* self._restart_task = None
NoRestart ==
    [pc |-> "none", close |-> "none", issued |-> {}, pending |-> {},
     timed_out |-> FALSE, pos |-> 0, forced |-> {}, skipped |-> {},
     raised |-> FALSE]

\* No announce_football_event call has been made; of each sink, whether
\* the call has got to it.
NoAnnounce ==
    [pc |-> "idle", calls |-> 0, channel |-> "none", irc |-> "none",
     webhook |-> "none"]

\* {}
EmptyDict == [k \in {} |-> <<>>]

\* No call on the warnings yet.
NoWarnCall ==
    [op |-> "none", guild_key |-> "", user_key |-> "", index |-> 0, had |-> 0,
     result |-> FALSE]

\* get_moderation_logs has not been called.
NoLogCall == [pc |-> "idle", limit |-> 0, result |-> <<>>]

\* A new ConfigStore has no moderation log.
LogsIdle ==
    /\ moderation_logs = <<>>
    /\ log_added = 0
    /\ logcall = NoLogCall

\* A new ModerationCog has no timed mute.
MutesIdle ==
    /\ active_mutes = EmptyDict
    /\ mute_tasks = <<>>

\* chunk_text has not been called.
NoChunk ==
    [pc |-> "idle", text |-> <<>>, max_length |-> 0, separator |-> <<>>,
     result |-> <<>>]

\* format_uptime has not been called.
NoUptime == [pc |-> "idle", seconds |-> 0, result |-> ""]

\* No Discord message has been delivered to on_message.
NoDiscordIn ==
    [author_bot |-> FALSE, channel_id |-> "", display_name |-> <<>>,
     clean_content |-> <<>>, attachments |-> <<>>]

\* The handler of a protocol line returned.
NoException == [type |-> "none", str |-> <<>>]

\* No raw protocol line has been handled.
NoRaw == [calls |-> 0, network |-> 0, join |-> FALSE, exc |-> NoException,
          outcome |-> "none"]

\* No stop_irc call has been made.
NoStop ==
    [pc |-> "idle", calls |-> 0, pos |-> 0, at_call |-> {}, quit |-> {},
     stopped_any |-> FALSE]

\* RelayCoordinator.__init__ with n networks, but for the error counters
InitState(n) ==
    /\ discord_ready = FALSE
    /\ health = NoHealth
    /\ discord_channel = NoChannel
    /\ discord_webhook = NoWebhook
    /\ lock = <<>>
    /\ irc_task = [k \in 1..n |-> IdleTask]
    /\ irc_in = NoCall
    /\ next_irc = 1
    /\ discord_posts = <<>>
    /\ irc_done = <<>>
    /\ ready_task = [k \in 1..MaxReady |-> NoReady]
    /\ discord_reconnect_count = 0
    /\ slash_synced = FALSE
    /\ online_posts = 0
    /\ slash_syncs = 0
    /\ restart_task = NoRestart
    /\ restart_calls = 0
    /\ restart_tasks = 0
    /\ shutdowns = 0
    /\ execs = 0
    /\ discord_closed = FALSE
    /\ http_open = TRUE
    /\ stopcall = NoStop
    /\ announce = NoAnnounce
    /\ raw = NoRaw
    /\ discord_in = NoDiscordIn
    /\ heap = [k \in 1..n |-> NewClient(IrcNetworks(n)[k])]
    /\ irc_clients = [k \in 1..n |-> k]
    /\ sup = [k \in 1..n |-> IdleSup(k)]
    /\ irc_reconnect_count = 0
    /\ message_count = 0
    /\ now = 1
    /\ connects = [k \in 1..n |-> 0]
    /\ drops = [k \in 1..n |-> FALSE]
    /\ sendcall = NoSend
    /\ next_msg = 1
    /\ irc_sent = [k \in 1..n |-> <<>>]
    /\ dropped = {}

\* The coordinator as constructed, and no call of a helper of utils.py.
InitRelay(n) ==
    /\ InitState(n)
    /\ chunk = NoChunk
    /\ uptime = NoUptime
    /\ user_warnings = EmptyDict
    /\ warncall = NoWarnCall
    /\ LogsIdle
    /\ MutesIdle

\* RelayCoordinator.__init__ with n networks
InitWith(n) ==
    /\ InitRelay(n)
    /\ settings = SettingsWith(n, RelayChannelId, "text", NoUrl)
    /\ server_webhooks = {}
    /\ error_count = 0
    /\ last_error_time = None

Init == \E n \in 1..MaxNetworks : InitWith(n)

(* ---------------------- _recreate_irc_client -------------------------- *)

\* A slip: the config of the first network, whatever the index.
ReplacementConfigFirst(client_index) == settings.irc_networks[1]

\* settings.irc_networks[client_index] (client_index counts from 0)
ReplacementConfig(client_index) == settings.irc_networks[client_index + 1]

\* if client_index >= len(self.irc_clients): return
RecreateInRange(client_index) == client_index < Len(irc_clients)

\* if client.connected: await client.disconnect(expected=False)
RecreateMustDisconnect(h, client_index) ==
    h[irc_clients[client_index + 1]].connected

\* self.irc_clients[client_index] = IRCRelayClient(self, network_config)
HeapAfterRecreate(h, client_index) ==
    Append(h, NewClient(ReplacementConfig(client_index)))

\* A slip: the new client stored at the index after client_index.
ClientsAfterRecreateNext(h, client_index) ==
    [irc_clients EXCEPT ![((client_index + 1) % Len(irc_clients)) + 1] = Len(h) + 1]

ClientsAfterRecreate(h, client_index) ==
    [irc_clients EXCEPT ![client_index + 1] = Len(h) + 1]

\* A slip: on_disconnect calling super().on_disconnect(), which reconnects.
OnDisconnectReconnects(client) == [client EXCEPT !.own_connect = TRUE]

\* IRCRelayClient.on_disconnect(expected): a log line, and no call of the
\* parent's on_disconnect.
OnDisconnect(client) == client

\* The heap after `id` lost its transport and its on_disconnect ran.
Disconnected(h, id) ==
    [h EXCEPT ![id] = OnDisconnect([@ EXCEPT !.connected = FALSE,
                                            !.registered = FALSE])]

\* history: a registered connection of network i went down
DropsAfter(h, h2, i) ==
    IF \E id \in 1..Len(h) :
           /\ h[id].network_config = settings.irc_networks[i]
           /\ h[id].registered /\ ~h2[id].registered
    THEN [drops EXCEPT ![i] = TRUE]
    ELSE drops

(* ------------------ _start_irc_client (supervisor i) ------------------ *)

ErrorKinds == {"transport", "read_conflict", "runtime", "other_read_conflict", "other"}

\* A slip: asyncio.sleep(5) in every except clause.
BackoffAlwaysTransport(e) == BackoffTransport

\* asyncio.sleep(5) / asyncio.sleep(2) of the except clauses
Backoff(e) ==
    IF e \in {"read_conflict", "other_read_conflict"}
    THEN BackoffReadConflict
    ELSE BackoffTransport

\* The top of `while True`: connect unless connected, then handle_forever().
LoopTop(h, id) == IF ~h[id].connected THEN "connecting" ELSE "handle"

\* Recreations done or under way (the bound of the exploration).
RecreatesStarted ==
    Len(heap) - N + Cardinality({j \in Nets : sup[j].pc = "disconnecting"})

\* A slip: an except clause that re-raises, so that the error leaves the
\* loop and ends the task.
OnSupervisorErrorEscapes(i, e, h) ==
    /\ heap' = h
    /\ irc_clients' = irc_clients
    /\ sup' = [sup EXCEPT ![i].pc = "raised"]
    /\ drops' = DropsAfter(heap, h, i)

\* An except clause of the loop, entered with heap h: _recreate_irc_client
\* runs up to its await (the disconnect of a connected client) or, without
\* one, to the end; then client = self.irc_clients[client_index]; sleep.
OnSupervisorError(i, e, h) ==
    /\ RecreatesStarted < MaxRecreates
    /\ IF RecreateInRange(i - 1) /\ RecreateMustDisconnect(h, i - 1)
       THEN /\ heap' = h
            /\ irc_clients' = irc_clients
            /\ sup' = [sup EXCEPT ![i].pc = "disconnecting", ![i].delay = Backoff(e)]
            /\ drops' = DropsAfter(heap, h, i)
       ELSE /\ heap' = HeapAfterRecreate(h, i - 1)
            /\ irc_clients' = ClientsAfterRecreate(h, i - 1)
            /\ sup' = [sup EXCEPT ![i].pc = "sleep", ![i].delay = Backoff(e),
                                  ![i].client = Len(h) + 1]
            /\ drops' = DropsAfter(heap, h, i)

\* The task starts: client = self.irc_clients[client_index]; first pass.
SupStart(i) ==
    /\ sup[i].pc = "start"
    /\ sup' = [sup EXCEPT ![i].client = irc_clients[i],
                          ![i].pc = LoopTop(heap, irc_clients[i])]
    /\ UNCHANGED <<settings, heap, irc_clients, irc_reconnect_count, error_count,
                   last_error_time, message_count, now, connects, drops,
                   sendcall, next_msg, irc_sent, dropped,
                   discord_vars>>

\* await client.connect(...) returns.
ConnectOk(i) ==
    /\ sup[i].pc = "connecting"
    /\ heap' = [heap EXCEPT ![sup[i].client].connected = TRUE]
    /\ sup' = [sup EXCEPT ![i].pc = "handle"]
    /\ UNCHANGED <<settings, irc_clients, irc_reconnect_count, error_count,
                   last_error_time, message_count, now, connects, drops,
                   sendcall, next_msg, irc_sent, dropped,
                   discord_vars>>

\* await client.connect(...) raises.
ConnectFail(i, e) ==
    /\ sup[i].pc = "connecting"
    /\ OnSupervisorError(i, e, heap)
    /\ UNCHANGED <<settings, irc_reconnect_count, error_count, last_error_time,
                   message_count, now, connects, sendcall, next_msg, irc_sent,
                   dropped,
                   discord_vars>>

\* IRCRelayClient.on_connect, run by handle_forever() when registration ends;
\* the nickname in use is the configured one or a fallback.
OnConnect(i, fallback) ==
    LET id == sup[i].client
        c == heap[id]
    IN /\ sup[i].pc = "handle"
       /\ c.connected /\ ~c.registered
       /\ connects[i] < MaxConnects
       /\ irc_reconnect_count' = ReconnectCountAfterConnect(c, irc_reconnect_count)
       /\ heap' = [heap EXCEPT ![id].is_first_connect = FALSE,
                               ![id].registered = TRUE,
                               ![id].nickname =
                                   IF fallback
                                   THEN c.network_config.nick \o <<"_", "1">>
                                   ELSE c.network_config.nick]
       /\ connects' = [connects EXCEPT ![i] = @ + 1]
       /\ UNCHANGED <<settings, irc_clients, sup, error_count, last_error_time,
                      message_count, now, drops, sendcall, next_msg, irc_sent,
                      dropped,
                   discord_vars>>

\* The connection is lost and handle_forever() returns: next pass of the loop.
ConnectionLost(i) ==
    LET id == sup[i].client
        h == Disconnected(heap, id)
    IN /\ sup[i].pc = "handle"
       /\ heap[id].connected
       /\ heap' = h
       /\ drops' = DropsAfter(heap, h, i)
       /\ sup' = [sup EXCEPT ![i].pc = LoopTop(h, id)]
       /\ UNCHANGED <<settings, irc_clients, irc_reconnect_count, error_count,
                      last_error_time, message_count, now, connects, sendcall,
                      next_msg, irc_sent, dropped,
                   discord_vars>>

\* handle_forever() raises; the transport is still up, or went down with it.
HandleRaise(i, e, still) ==
    LET id == sup[i].client
        h == IF still THEN heap ELSE Disconnected(heap, id)
    IN /\ sup[i].pc = "handle"
       /\ heap[id].connected
       /\ OnSupervisorError(i, e, h)
       /\ UNCHANGED <<settings, irc_reconnect_count, error_count, last_error_time,
                      message_count, now, connects, sendcall, next_msg, irc_sent,
                      dropped,
                   discord_vars>>

\* await client.disconnect(expected=False) of _recreate_irc_client ends: it
\* returned, or raised (except Exception: pass) and left the transport in
\* either state. The client is replaced and the supervisor sleeps.
DisconnectDone(i, raised, still) ==
    LET old == irc_clients[i]
        h == IF raised /\ still THEN heap ELSE Disconnected(heap, old)
    IN /\ sup[i].pc = "disconnecting"
       /\ (still => raised)
       /\ heap' = HeapAfterRecreate(h, i - 1)
       /\ irc_clients' = ClientsAfterRecreate(h, i - 1)
       /\ sup' = [sup EXCEPT ![i].pc = "sleep", ![i].client = Len(h) + 1]
       /\ drops' = DropsAfter(heap, h, i)
       /\ UNCHANGED <<settings, irc_reconnect_count, error_count, last_error_time,
                      message_count, now, connects, sendcall, next_msg, irc_sent,
                      dropped,
                   discord_vars>>

\* await asyncio.sleep(delay) ends; continue.
SleepDone(i) ==
    /\ sup[i].pc = "sleep"
    /\ sup' = [sup EXCEPT ![i].pc = LoopTop(heap, sup[i].client), ![i].delay = 0]
    /\ UNCHANGED <<settings, heap, irc_clients, irc_reconnect_count, error_count,
                   last_error_time, message_count, now, connects, drops,
                   sendcall, next_msg, irc_sent, dropped,
                   discord_vars>>

\* A direct call of _recreate_irc_client with an index past the list.
RecreateOutOfRange(client_index) ==
    /\ ~RecreateInRange(client_index)
    /\ UNCHANGED vars

\* The supervisors of all networks, registering with the configured nick.
Next ==
    \/ \E i \in Nets : SupStart(i)
    \/ \E i \in Nets : ConnectOk(i)
    \/ \E i \in Nets, e \in ErrorKinds : ConnectFail(i, e)
    \/ \E i \in Nets : OnConnect(i, FALSE)
    \/ \E i \in Nets : ConnectionLost(i)
    \/ \E i \in Nets, e \in ErrorKinds, still \in BOOLEAN : HandleRaise(i, e, still)
    \/ \E i \in Nets, raised, still \in BOOLEAN : DisconnectDone(i, raised, still)
    \/ \E i \in Nets : SleepDone(i)
    \/ \E client_index \in 0..MaxNetworks : RecreateOutOfRange(client_index)

Spec == Init /\ [][Next]_vars

(* --------------------- send_to_irc (Discord -> IRC) ------------------- *)

\* k calls of record_error() within one step
RecordErrors(k) ==
    IF k = 0
    THEN UNCHANGED <<error_count, last_error_time>>
    ELSE /\ error_count' = error_count + k
         /\ last_error_time' = now

\* A slip: the loop sends whatever the state of the client.
ShouldSendAlways(client) == TRUE

\* if client.connected:
ShouldSend(client) == client.connected

\* A slip: no except clause around client.message().
SendExceptionEscapes == FALSE

\* except Exception as e: ... self.record_error()  -- the loop goes on
SendExceptionHandled == TRUE

\* The next index, from `from` on, at which the loop awaits client.message().
FirstToSend(from) ==
    IF \E j \in from..N : ShouldSend(heap[irc_clients[j]])
    THEN CHOOSE j \in from..N :
             /\ ShouldSend(heap[irc_clients[j]])
             /\ \A k \in from..(j - 1) : ~ShouldSend(heap[irc_clients[k]])
    ELSE 0

\* history: the indexes from..to are passed, the last one (j) to send
SeenAfterScan(seen, from, to, j) ==
    [k \in Nets |-> IF k \in from..to /\ k # j THEN "skipped" ELSE seen[k]]

\* history: a client passed without a send was connected
MissedIn(from, to, j) ==
    \E k \in from..to : k # j /\ heap[irc_clients[k]].connected

\* The for loop from index `from`, after errs errors recorded in this step:
\* up to the next await, or to the end of the call (if not sent_to_any: ...).
ScanFrom(call, from, errs) ==
    LET j == FirstToSend(from)
    IN IF j # 0
       THEN /\ sendcall' = [call EXCEPT
                               !.pc = "sending", !.pos = j,
                               !.seen = SeenAfterScan(call.seen, from, j, j),
                               !.missed = call.missed \/ MissedIn(from, j, j)]
            /\ RecordErrors(errs)
       ELSE /\ sendcall' = [call EXCEPT
                               !.pc = "done", !.pos = 0,
                               !.seen = SeenAfterScan(call.seen, from, N, 0),
                               !.missed = call.missed \/ MissedIn(from, N, 0)]
            /\ RecordErrors(errs + (IF call.sent_to_any THEN 0 ELSE 1))

NewSend(id, text) ==
    [pc |-> "idle", msg |-> id, text |-> text, pos |-> 0, sent_to_any |-> FALSE,
     seen |-> [k \in Nets |-> "unvisited"], missed |-> FALSE, escaped |-> FALSE]

\* send_to_irc(message) is called: the loop runs to its first await.
SendToIrcBegin(text) ==
    /\ sendcall.pc \in {"idle", "done"}
    /\ next_msg <= MaxMsgs
    /\ next_msg' = next_msg + 1
    /\ dropped' = IF \A j \in Nets : ~heap[irc_clients[j]].connected
                  THEN dropped \cup {next_msg}
                  ELSE dropped
    /\ ScanFrom(NewSend(next_msg, text), 1, 0)

\* await client.message(client.target_channel, message) returns or raises.
SendReturns(ok) ==
    LET j == sendcall.pos
    IN /\ sendcall.pc = "sending"
       /\ IF ok
          THEN /\ irc_sent' = [irc_sent EXCEPT
                                  ![j] = Append(@, sendcall.msg)]
               /\ ScanFrom([sendcall EXCEPT !.sent_to_any = TRUE,
                                            !.seen[j] = "sent"], j + 1, 0)
          ELSE /\ irc_sent' = irc_sent
               /\ IF SendExceptionHandled
                  THEN ScanFrom([sendcall EXCEPT !.seen[j] = "failed"], j + 1, 1)
                  ELSE /\ sendcall' = [sendcall EXCEPT !.seen[j] = "failed",
                                                       !.pc = "done", !.pos = 0,
                                                       !.escaped = TRUE]
                       /\ RecordErrors(0)
       /\ UNCHANGED <<settings, heap, irc_clients, sup, irc_reconnect_count,
                      message_count, now, connects, drops, next_msg, dropped,
                   discord_vars>>

(* ----------------------- handle_discord_message ----------------------- *)

RECURSIVE Join(_, _)
\* sep.join(parts)
Join(parts, sep) ==
    IF parts = <<>> THEN <<>>
    ELSE IF Len(parts) = 1 THEN parts[1]
    ELSE parts[1] \o sep \o Join(Tail(parts), sep)

AttachmentsLabel == <<"[", "a", "t", "t", "]", " ">>

\* content_parts of handle_discord_message
ContentParts(message) ==
    (IF message.clean_content # <<>> THEN <<message.clean_content>> ELSE <<>>)
    \o (IF message.attachments # <<>>
        THEN <<AttachmentsLabel \o Join(message.attachments, <<" ">>)>>
        ELSE <<>>)

\* content = "\n".join(part for part in content_parts if part).strip()
Content(message) ==
    Strip(Join(SelectSeq(ContentParts(message), LAMBDA part : part # <<>>), <<"\n">>))

\* f"{prefix} {content}" with prefix = f"<{message.author.display_name}>"
IrcLine(message) ==
    <<"<">> \o message.display_name \o <<">", " ">> \o Content(message)

DiscordMessage(cc, at) ==
    [display_name |-> <<"a", "n", "n">>, clean_content |-> cc, attachments |-> at]

\* The Discord messages of the environment: text, blank text, only an
\* attachment, nothing at all.
DiscordMessages ==
    { DiscordMessage(<<"h", "i">>, <<>>),
      DiscordMessage(<<" ">>, <<>>),
      DiscordMessage(<<>>, << <<"u", "1">> >>),
      DiscordMessage(<<>>, <<>>) }

\* RelayCoordinator.record_message
RecordMessage ==
    /\ message_count' = message_count + 1

\* handle_discord_message(message), up to the first await of send_to_irc
HandleDiscordMessage(message) ==
    /\ RecordMessage
    /\ IF Content(message) = <<>>
       THEN /\ sendcall.pc \in {"idle", "done"}
            /\ next_msg <= MaxMsgs
            /\ next_msg' = next_msg + 1
            /\ UNCHANGED <<sendcall, dropped, error_count, last_error_time>>
       ELSE SendToIrcBegin(IrcLine(message))
    /\ UNCHANGED <<settings, heap, irc_clients, sup, irc_reconnect_count, now,
                   connects, drops, irc_sent,
                   discord_vars>>

\* announce_football_event's call: send_to_irc(summary)
SendSummary ==
    /\ SendToIrcBegin(<<"g", "o", "a", "l">>)
    /\ UNCHANGED <<settings, heap, irc_clients, sup, irc_reconnect_count,
                   message_count, now, connects, drops, irc_sent,
                   discord_vars>>

\* send_to_irc and its callers, with the supervisors as send_to_irc sees
\* them: connections come and go (registration and the replacement of a
\* client, which leaves a client that is not connected at the index, play no
\* part in sending).
NextFanout ==
    \/ \E i \in Nets : SupStart(i)
    \/ \E i \in Nets : ConnectOk(i)
    \/ \E i \in Nets : ConnectionLost(i)
    \/ \E message \in DiscordMessages : HandleDiscordMessage(message)
    \/ SendSummary
    \/ \E ok \in BOOLEAN : SendReturns(ok)

SpecFanout == Init /\ [][NextFanout]_vars

(* ======================== claims: supervision ========================= *)

C4_FirstConnectNotCounted ==
    [][\A i \in Nets :
           (connects[i] = 0 /\ connects'[i] = 1)
               => irc_reconnect_count' = irc_reconnect_count]_vars

\* Every network has registered, and nothing was counted.
C4_Witness ==
    /\ N >= 2
    /\ \A i \in Nets : connects[i] = 1
    /\ irc_reconnect_count = 0

\* C5: a registration of a network that had registered before and lost that
\* connection raises irc_reconnect_count by exactly one, on the same client
\* object or on a recreated one.
C5_EveryReconnectCounted ==
    [][\A i \in Nets :
           (connects[i] >= 1 /\ drops[i] /\ connects'[i] = connects[i] + 1)
               => irc_reconnect_count' = irc_reconnect_count + 1]_vars

(* ========================== claims: fan-out =========================== *)

\* C2: when a send_to_irc call has ended, it has passed every index of the
\* client list, it has attempted a send on every client it found connected,
\* whichever sends raised, and no exception left the call.
C2_FanOutResilient ==
    sendcall.pc = "done" =>
        /\ ~sendcall.escaped
        /\ ~sendcall.missed
        /\ \A k \in Nets : sendcall.seen[k] # "unvisited"

\* A send raised on one network and a send was attempted on a later one.
C2_Witness ==
    /\ sendcall.pc = "done"
    /\ \E j, k \in Nets :
           /\ j < k
           /\ sendcall.seen[j] = "failed"
           /\ sendcall.seen[k] \in {"sent", "failed"}

RECURSIVE Occurrences(_, _)
Occurrences(seq, x) ==
    IF seq = <<>> THEN 0
    ELSE (IF Head(seq) = x THEN 1 ELSE 0) + Occurrences(Tail(seq), x)

\* C3: a message whose send_to_irc call found no connection connected is
\* written to no network, then or later; the call records an error; and no
\* message is written to a network twice.
C3_DroppedNeverDelivered ==
    /\ [](\A j \in Nets :
              /\ \A m \in dropped : Occurrences(irc_sent[j], m) = 0
              /\ \A m \in 1..MaxMsgs : Occurrences(irc_sent[j], m) <= 1)
    /\ [][dropped' # dropped =>
              /\ error_count' = error_count + 1
              /\ irc_sent' = irc_sent
              /\ sendcall'.pc = "done"]_vars

\* A message was dropped during an outage; a connection is back and a later
\* message went through.
C3_Witness ==
    /\ dropped # {}
    /\ \E j \in Nets :
           /\ heap[irc_clients[j]].connected
           /\ irc_sent[j] # <<>>

(* --------------------------- get_health_stats ------------------------- *)

\* discord_ready = self.discord_bot.is_ready() if self.discord_bot else False
DiscordReadyNow == discord_ready

\* irc_connected = any(client.connected for client in self.irc_clients)
\*                 if self.irc_clients else False
IrcConnected ==
    IF irc_clients # <<>>
    THEN \E i \in 1..Len(irc_clients) : heap[irc_clients[i]].connected
    ELSE FALSE

\* Truthiness of self._last_error_time (None and 0 are falsy)
Truthy(t) == t # None /\ t # 0

\* A slip: the threshold is reached at error_count = 100, the window closed.
UnhealthyOffByOne(count, last, t) ==
    count >= ErrorThreshold \/ (Truthy(last) /\ (t - last) <= RecentErrorWindow)

\* self._error_count > 100 or (self._last_error_time and
\*     (time.time() - self._last_error_time) < 60)
Unhealthy(count, last, t) ==
    count > ErrorThreshold \/ (Truthy(last) /\ (t - last) < RecentErrorWindow)

\* health_status of get_health_stats
HealthStatus(ready, irc, count, last, t) ==
    IF Unhealthy(count, last, t) THEN "unhealthy"
    ELSE IF ~ready \/ ~irc THEN "degraded"
    ELSE "healthy"

\* get_health_stats(): a read of the state; the record keeps the fields of
\* the returned dict that the status is derived from.
GetHealthStats ==
    /\ health' = [calls             |-> 1 - health.calls,
                  health_status     |-> HealthStatus(DiscordReadyNow, IrcConnected,
                                                     error_count, last_error_time, now),
                  discord_connected |-> DiscordReadyNow,
                  irc_connected     |-> IrcConnected]
    /\ UNCHANGED <<settings, heap, irc_clients, sup, irc_reconnect_count,
                   error_count, last_error_time, message_count, now, connects,
                   drops, sendcall, next_msg, irc_sent, dropped, discord_ready,
                   inbound_vars, session_vars, lifecycle_vars, ops_vars>>

\* Errors recorded since the initial state of the health specification.
RunErrors ==
    IF error_count >= ErrorThreshold - 1
    THEN error_count - (ErrorThreshold - 1)
    ELSE error_count

\* A record_error() call of one of its callers (send_to_irc, on_raw).
ErrorRecorded ==
    /\ RunErrors < MaxErrors
    /\ RecordError
    /\ UNCHANGED <<settings, heap, irc_clients, sup, irc_reconnect_count,
                   message_count, now, connects, drops, sendcall, next_msg,
                   irc_sent, dropped, discord_vars>>

\* The gateway session becomes ready.
DiscordGatewayReady ==
    /\ ~discord_ready
    /\ discord_ready' = TRUE
    /\ UNCHANGED <<settings, heap, irc_clients, sup, irc_reconnect_count,
                   error_count, last_error_time, message_count, now, connects,
                   drops, sendcall, next_msg, irc_sent, dropped, health,
                   inbound_vars, session_vars, lifecycle_vars, ops_vars>>

\* DiscordRelayBot.on_disconnect: record_error(); the session may stay
\* ready (it resumes) or be reset.
DiscordOnDisconnect(stays_ready) ==
    /\ discord_ready
    /\ RunErrors < MaxErrors
    /\ RecordError
    /\ discord_ready' = stays_ready
    /\ UNCHANGED <<settings, heap, irc_clients, sup, irc_reconnect_count,
                   message_count, now, connects, drops, sendcall, next_msg,
                   irc_sent, dropped, health,
                   inbound_vars, session_vars, lifecycle_vars, ops_vars>>

\* time.time() advances.
Tick ==
    /\ now + TimeStep <= MaxTime
    /\ now' = now + TimeStep
    /\ UNCHANGED <<settings, heap, irc_clients, sup, irc_reconnect_count,
                   error_count, last_error_time, message_count, connects, drops,
                   sendcall, next_msg, irc_sent, dropped, discord_vars>>

\* The coordinator with n networks after `errs` recorded errors, the last
\* one at the present time.
InitHealthWith(n, errs) ==
    /\ InitRelay(n)
    /\ settings = SettingsWith(n, RelayChannelId, "text", NoUrl)
    /\ server_webhooks = {}
    /\ error_count = errs
    /\ last_error_time = IF errs = 0 THEN None ELSE now

InitHealth ==
    \E n \in 1..MaxNetworks, errs \in {0, ErrorThreshold - 1} : InitHealthWith(n, errs)

\* get_health_stats read while connections come and go, errors are
\* recorded and time passes.
NextHealth ==
    \/ \E i \in Nets : SupStart(i)
    \/ \E i \in Nets : ConnectOk(i)
    \/ \E i \in Nets : ConnectionLost(i)
    \/ DiscordGatewayReady
    \/ \E stays_ready \in BOOLEAN : DiscordOnDisconnect(stays_ready)
    \/ ErrorRecorded
    \/ Tick
    \/ GetHealthStats

SpecHealth == InitHealth /\ [][NextHealth]_vars

(* =========================== claims: health =========================== *)

\* The unhealthy condition as the claims state it, at the present time.
UnhealthyNow ==
    \/ error_count > 100
    \/ (last_error_time # None /\ now - last_error_time < 60)

\* C9: a get_health_stats call returns "degraded" exactly when the
\* unhealthy condition does not hold and some transport is disconnected
\* (Discord not ready, or one of the IRC connections not connected), and
\* "healthy" only when Discord and every IRC connection are connected.
C9_DegradedWheneverAnyDown ==
    [][health'.calls # health.calls =>
          LET any_down == \/ ~discord_ready
                          \/ \E i \in Nets : ~heap[irc_clients[i]].connected
          IN /\ (health'.health_status = "degraded") <=> (~UnhealthyNow /\ any_down)
             /\ (health'.health_status = "healthy") => ~any_down]_vars

\* C10: a get_health_stats call returns "unhealthy" exactly when
\* error_count > 100 or the last error is less than 60 seconds old,
\* whatever the connectivity.
C10_UnhealthyExactly ==
    [][health'.calls # health.calls =>
          ((health'.health_status = "unhealthy") <=> UnhealthyNow)]_vars

\* C10, its case: "unhealthy" was returned with Discord and IRC connected
\* and no more than 100 errors, for an error less than 60 seconds old.
C10_Witness ==
    /\ health.health_status = "unhealthy"
    /\ health.discord_connected /\ health.irc_connected
    /\ error_count <= ErrorThreshold
    /\ now - last_error_time < RecentErrorWindow

\* ------------------------------------------------------------------------
\* IRC -> Discord: on_message, handle_irc_message, the channel and the
\* webhook.  A call is followed from one await to the next; st carries the
\* coordinator's fields and the call's locals through the synchronous code
\* in between.

\* Who sends and where to, as a connection can see it: its channel as
\* configured, the channel in another case, its own nickname (a private
\* message); a user, the relay's nickname and its first fallback.
Targets(client) ==
    {client.target_channel, Casefold(client.target_channel), client.nickname}

Sources(client) ==
    {<<"A", "l">>, client.network_config.nick,
     client.network_config.nick \o <<"_", "1">>}

\* The text of the messages of the IRC users.
IrcText == <<"h", "i">>

\* target compared as written (the comparison without casefold)
TargetMatchesExactly(client, target) == target = client.target_channel

\* not (target.casefold() != self.target_channel.casefold())
TargetMatches(client, target) ==
    Casefold(target) = Casefold(client.target_channel)

\* source == self.nickname
IsEcho(client, source) == source = client.nickname

\* the name of the webhook the relay looks for and creates
RelayWebhookName == "UpLove IRC Relay"

\* webhook.user == self.discord_bot.user and webhook.name == "UpLove IRC Relay"
IsRelayWebhook(webhook) ==
    webhook.user = "bot" /\ webhook.name = RelayWebhookName

\* What the channel can hold before the relay runs: nothing, the relay's
\* webhook of an earlier run, or somebody else's webhook of the same name.
InitialWebhooks ==
    {{}, {[id |-> 1, user |-> "bot", name |-> RelayWebhookName]},
     {[id |-> 1, user |-> "other", name |-> RelayWebhookName]}}

\* the default of discord.py when allowed_mentions is not given
AllowedMentionsDefault == "default"

\* discord.AllowedMentions.none()
AllowedMentionsNone == "none"

\* len(self.irc_clients) >= 1
HasNetworks == Len(irc_clients) >= 1

\* has_multiple_networks = len(self.irc_clients) > 1
HasMultipleNetworks == Len(irc_clients) > 1

\* username, from author and network_name
Username(author, network_name) ==
    LET author_label == Strip(author)
    IN IF HasMultipleNetworks /\ network_name # <<>>
       THEN IF author_label # <<>>
            THEN author_label \o <<" ", "[">> \o network_name \o <<"]">>
            ELSE <<"I", "R", "C", " ", "[">> \o network_name \o <<"]">>
       ELSE IF author_label # <<>> THEN author_label ELSE <<"I", "R", "C">>

\* formatted = f"**<{username}>** {content}"
Formatted(username, content) ==
    <<"*", "*", "<">> \o username \o <<">", "*", "*", " ">> \o content

\* The coordinator and the call of connection i, at a resumption of the call.
CallState(i) ==
    [task  |-> irc_task[i],
     ch    |-> discord_channel,
     wh    |-> discord_webhook,
     lockq |-> lock,
     hooks |-> server_webhooks,
     posts |-> discord_posts,
     done  |-> irc_done,
     errs  |-> 0]

\* The call is over: on_message returns to on_raw.
Finished(st, outcome, via) ==
    [st EXCEPT !.task = IdleTask,
               !.done = (st.task.msg :> [outcome   |-> outcome,
                                         via       |-> via,
                                         webhook   |-> st.task.webhook,
                                         forbidden |-> st.task.forbidden])
                        @@ st.done]

\* An exception leaves handle_irc_message and on_message: on_raw's
\* "except Exception" records the error and does not re-raise.
Raise(st, via) == Finished([st EXCEPT !.errs = @ + 1], "raised", via)

\* "async with self._lock" is left: the first waiter becomes the holder.
Release(st) == [st EXCEPT !.lockq = Tail(@)]

\* webhook is not None: await webhook.send(...); else await channel.send(...)
SendVia(st, webhook) ==
    [st EXCEPT !.task.webhook = webhook,
               !.task.pc = IF webhook # NoWebhook
                           THEN "send_webhook" ELSE "send_bot"]

\* _ensure_discord_webhook without the test of the cached handle
EnsureDiscordWebhookUncached(st, session) ==
    IF settings.discord_webhook_url # NoUrl
    THEN IF ~session
         THEN SendVia(st, NoWebhook)
         ELSE SendVia([st EXCEPT !.wh = UrlWebhook], UrlWebhook)
    ELSE [st EXCEPT !.task.pc = "listing"]

\* _ensure_discord_webhook(channel), up to its return or its first await
EnsureDiscordWebhook(st, session) ==
    IF st.wh # NoWebhook THEN SendVia(st, st.wh)
    ELSE IF settings.discord_webhook_url # NoUrl
         THEN IF ~session
              THEN SendVia(st, NoWebhook)
              ELSE SendVia([st EXCEPT !.wh = UrlWebhook], UrlWebhook)
         ELSE [st EXCEPT !.task.pc = "listing"]

\* handle_irc_message once the channel is there: the username, then the
\* webhook
AfterChannel(st, session) ==
    EnsureDiscordWebhook(
        [st EXCEPT !.task.username =
                       Username(st.task.author, st.task.network_name)],
        session)

\* _ensure_discord_channel from the isinstance check on; the lock is held
CheckChannelType(st, session) ==
    IF settings.channel_kind # "text"
    THEN Raise(Release(st), "none")
    ELSE AfterChannel(Release([st EXCEPT !.ch = RelayChannel]), session)

\* _ensure_discord_channel inside "async with self._lock"
InsideLock(st, cached, session) ==
    IF st.ch = NoChannel
    THEN IF settings.discord_channel_id = PlaceholderChannelId
         THEN Raise(Release(st), "none")
         ELSE IF cached
              THEN CheckChannelType(st, session)
              ELSE [st EXCEPT !.task.pc = "fetching"]
    ELSE AfterChannel(Release(st), session)

\* _ensure_discord_channel from its first line
EnsureDiscordChannel(st, i, cached, session) ==
    IF st.ch # NoChannel THEN AfterChannel(st, session)
    ELSE IF st.lockq = <<>>
         THEN InsideLock([st EXCEPT !.lockq = <<i>>], cached, session)
         ELSE [st EXCEPT !.lockq = Append(@, i), !.task.pc = "wait_lock"]

\* get_channel finds the channel only if there is one, and is called only
\* while _discord_channel is None
CanBeCached(cached) ==
    cached => /\ settings.channel_kind \in {"text", "voice"}
              /\ settings.discord_channel_id # PlaceholderChannelId
              /\ discord_channel = NoChannel

\* the session of the bot's HTTP client is there or not, and is looked at
\* only when discord_webhook_url is set and _discord_webhook is None
CanHaveSession(session) ==
    session => /\ settings.discord_webhook_url # NoUrl
               /\ discord_webhook = NoWebhook

\* The coordinator after a step of the call of connection i.
Commit(i, st) ==
    /\ irc_task' = [irc_task EXCEPT ![i] = st.task]
    /\ discord_channel' = st.ch
    /\ discord_webhook' = st.wh
    /\ lock' = st.lockq
    /\ server_webhooks' = st.hooks
    /\ discord_posts' = st.posts
    /\ irc_done' = st.done
    /\ error_count' = error_count + st.errs
    /\ last_error_time' = IF st.errs > 0 THEN now ELSE last_error_time

\* on_message(target, source, message) at connection i, up to its return or
\* the first await of handle_irc_message
OnMessage(i, target, source, message, cached, session) ==
    LET c == heap[sup[i].client]
    IN /\ sup[i].pc = "handle"
       /\ c.connected /\ c.registered
       /\ irc_task[i].pc = "idle"
       /\ target \in Targets(c) /\ source \in Sources(c)
       /\ CanBeCached(cached) /\ CanHaveSession(session)
       /\ irc_in' = [net |-> i, target |-> target, source |-> source]
       /\ next_irc <= MaxIrcMsgs
       /\ next_irc' = next_irc + 1
       /\ IF ~TargetMatches(c, target) \/ IsEcho(c, source)
          THEN /\ UNCHANGED <<discord_channel, discord_webhook, lock,
                              irc_task, server_webhooks, discord_posts,
                              irc_done, error_count, last_error_time,
                              message_count>>
          ELSE /\ RecordMessage
               /\ Commit(i, EnsureDiscordChannel(
                      [CallState(i) EXCEPT
                          !.task = [IdleTask EXCEPT
                                       !.msg = next_irc,
                                       !.author = source,
                                       !.network_name = c.network_config.server,
                                       !.content = message]],
                      i, cached, session))
       /\ UNCHANGED <<settings, heap, irc_clients, sup, irc_reconnect_count,
                      now, connects, drops, sendcall, next_msg, irc_sent,
                      dropped, discord_ready, health, session_vars, lifecycle_vars, ops_vars>>

\* What a step of a call in progress leaves alone.
CallStepUnchanged ==
    UNCHANGED <<settings, heap, irc_clients, sup, irc_reconnect_count,
                message_count, now, connects, drops, sendcall, next_msg,
                irc_sent, dropped, discord_ready, health, irc_in, next_irc,
                session_vars, lifecycle_vars, ops_vars>>

\* The call of connection i gets the lock it waited for.
LockAcquired(i, cached, session) ==
    /\ irc_task[i].pc = "wait_lock"
    /\ lock # <<>> /\ Head(lock) = i
    /\ CanBeCached(cached) /\ CanHaveSession(session)
    /\ Commit(i, InsideLock(CallState(i), cached, session))
    /\ CallStepUnchanged

\* What fetch_channel can answer for the configured id.
FetchResults ==
    {"HTTPException"} \cup
    CASE settings.channel_kind \in {"text", "voice"} -> {"channel"}
      [] settings.channel_kind = "missing" -> {"NotFound"}
      [] OTHER -> {"Forbidden"}

\* await self.discord_bot.fetch_channel(...) is over
FetchDone(i, result, session) ==
    /\ irc_task[i].pc = "fetching"
    /\ result \in FetchResults
    /\ CanHaveSession(session)
    /\ Commit(i, IF result = "channel"
                 THEN CheckChannelType(CallState(i), session)
                 ELSE Raise(Release(CallState(i)), "none"))
    /\ CallStepUnchanged

\* The outcomes of channel.webhooks() and channel.create_webhook()
WebhookResults == {"ok", "Forbidden", "HTTPException"}

\* await channel.webhooks() is over; found is the webhook the loop stops at
ListDone(i, result, found) ==
    LET st == [CallState(i) EXCEPT
                  !.task.forbidden =
                      IF result = "Forbidden" THEN "list" ELSE @]
        existing == {w \in server_webhooks : IsRelayWebhook(w)}
    IN /\ irc_task[i].pc = "listing"
       /\ found \in IF result = "ok" /\ existing # {}
                    THEN {w.id : w \in existing} ELSE {0}
       /\ Commit(i, IF result # "ok" THEN SendVia(st, NoWebhook)
                    ELSE IF found # 0
                         THEN SendVia([st EXCEPT !.wh = ChannelWebhook(found)],
                                      ChannelWebhook(found))
                         ELSE IF st.wh = NoWebhook
                              THEN [st EXCEPT !.task.pc = "creating"]
                              ELSE SendVia(st, st.wh))
       /\ CallStepUnchanged

\* await channel.create_webhook(name="UpLove IRC Relay") is over
CreateDone(i, result) ==
    LET st == [CallState(i) EXCEPT
                  !.task.forbidden =
                      IF result = "Forbidden" THEN "create" ELSE @]
        id == Cardinality(server_webhooks) + 1
    IN /\ irc_task[i].pc = "creating"
       /\ Commit(i, IF result = "ok"
                    THEN SendVia(
                             [st EXCEPT
                                 !.wh = ChannelWebhook(id),
                                 !.hooks = @ \cup
                                     {[id |-> id, user |-> "bot",
                                       name |-> RelayWebhookName]}],
                             ChannelWebhook(id))
                    ELSE SendVia(st, st.wh))
       /\ CallStepUnchanged

\* What Discord shows for a webhook.send or a channel.send of the call
\* (msg, author and network_name: history).
Post(task, via, mentions) ==
    [msg      |-> task.msg,
     author   |-> task.author,
     network_name |-> task.network_name,
     via      |-> via,
     username |-> IF via = "webhook" THEN task.username ELSE <<"b", "o", "t">>,
     content  |-> IF via = "webhook" THEN task.content
                  ELSE Formatted(task.username, task.content),
     mentions |-> mentions]

\* await webhook.send(...) or await channel.send(...) is over
SendDone(i, ok) ==
    LET st == CallState(i)
        via == IF irc_task[i].pc = "send_webhook" THEN "webhook" ELSE "bot"
    IN /\ irc_task[i].pc \in {"send_webhook", "send_bot"}
       /\ Commit(i, IF ok
                    THEN Finished(
                             [st EXCEPT !.posts =
                                 Append(@, Post(st.task, via,
                                                AllowedMentionsNone))],
                             "returned", via)
                    ELSE Raise(st, via))
       /\ CallStepUnchanged

\* What is configured, and what the channel id is on Discord.
InitInbound ==
    \E n \in 1..MaxNetworks, url \in {NoUrl, WebhookUrl},
       hooks \in InitialWebhooks :
        /\ InitRelay(n)
        /\ error_count = 0
        /\ last_error_time = None
        /\ server_webhooks = hooks
        /\ \/ settings = SettingsWith(n, PlaceholderChannelId, "missing", url)
           \/ \E kind \in ChannelKinds :
                  settings = SettingsWith(n, RelayChannelId, kind, url)

\* The messages of the IRC networks, at connections that come up and register
\* under the nickname or a fallback (what happens to a connection afterwards
\* plays no part in the handling of a message it delivered).
NextInbound ==
    \/ \E i \in Nets : SupStart(i)
    \/ \E i \in Nets : ConnectOk(i)
    \/ \E i \in Nets, fallback \in BOOLEAN : OnConnect(i, fallback)
    \/ \E i \in Nets, cached \in BOOLEAN, session \in BOOLEAN :
           \E target \in Targets(heap[sup[i].client]),
              source \in Sources(heap[sup[i].client]) :
               OnMessage(i, target, source, IrcText, cached, session)
    \/ \E i \in Nets, cached \in BOOLEAN, session \in BOOLEAN :
           LockAcquired(i, cached, session)
    \/ \E i \in Nets, session \in BOOLEAN :
           \E result \in FetchResults : FetchDone(i, result, session)
    \/ \E i \in Nets, result \in WebhookResults :
           \E found \in 0..(MaxIrcMsgs + 1) : ListDone(i, result, found)
    \/ \E i \in Nets, result \in WebhookResults : CreateDone(i, result)
    \/ \E i \in Nets, ok \in BOOLEAN : SendDone(i, ok)

SpecInbound == InitInbound /\ [][NextInbound]_vars


\* ------------------------------------------------------------------------
\* Claims about the IRC -> Discord direction (SpecInbound).

\* C6: on_message forwards to handle_irc_message only when target equals the
\* configured channel compared case-insensitively and source differs from
\* the connection's own current nickname; a message to another target, or an
\* echo from the own nickname, never triggers handle_irc_message and leaves
\* message_count unchanged.
C6_ForwardsOnlyChannelMessages ==
    [][next_irc' # next_irc =>
          LET i == irc_in'.net
              c == heap[sup[i].client]
          IN IF /\ Casefold(irc_in'.target) = Casefold(c.network_config.channel)
                /\ irc_in'.source # c.nickname
             THEN /\ message_count' = message_count + 1
                  /\ \/ irc_task'[i].msg = next_irc
                     \/ next_irc \in DOMAIN irc_done'
             ELSE /\ message_count' = message_count
                  /\ UNCHANGED <<irc_task, irc_done, discord_posts,
                                 discord_channel, discord_webhook, lock,
                                 error_count>>]_vars

\* C6, its case: of two messages delivered the first was ignored, and the
\* second, sent to the channel written in another case under the configured
\* nickname while the connection runs under a fallback nickname, is being
\* handled.
C6_Witness ==
    /\ irc_in.net # 0
    /\ next_irc = 3 /\ message_count = 1
    /\ irc_task[irc_in.net].msg = 2
    /\ irc_in.target # heap[sup[irc_in.net].client].target_channel
    /\ irc_in.source = heap[sup[irc_in.net].client].network_config.nick

\* The author as Discord shows it for post p: the username of a webhook
\* message, the label of a bot-authored line.
ExpectedAuthor(p) ==
    IF Len(settings.irc_networks) > 1
    THEN p.author \o <<" ", "[">> \o p.network_name \o <<"]">>
    ELSE p.author

\* C7: handle_irc_message displays the author as "author [network_name]"
\* exactly when more than one IRC network is configured, and as the bare
\* author when exactly one is configured.
C7_AuthorShowsNetwork ==
    \A k \in 1..Len(discord_posts) :
        LET p == discord_posts[k]
        IN IF p.via = "webhook"
           THEN p.username = ExpectedAuthor(p) /\ p.content = IrcText
           ELSE p.content = <<"*", "*", "<">> \o ExpectedAuthor(p)
                                \o <<">", "*", "*", " ">> \o IrcText

\* C7, its case: with two networks, a message of Al on irc2 is shown by the
\* webhook under "Al [irc2]".
C7_Witness ==
    /\ Len(settings.irc_networks) = 2
    /\ \E k \in 1..Len(discord_posts) :
           /\ discord_posts[k].via = "webhook"
           /\ discord_posts[k].username =
                  <<"A", "l", " ", "[", "i", "r", "c", "2", "]">>

\* The posts Discord shows for IRC message m.
PostsOf(m) == {k \in 1..Len(discord_posts) : discord_posts[k].msg = m}

C11_AtMostOneWebhookCreated ==
    /\ Cardinality({w \in server_webhooks : IsRelayWebhook(w)}) <= 1
    /\ Cardinality({i \in Nets : irc_task[i].pc = "creating"}) <= 1
    /\ (\E i \in Nets : irc_task[i].pc = "creating") =>
           ~ \E w \in server_webhooks : IsRelayWebhook(w)


RecordDiscordReconnect(count) == count + 1

\* on_ready: if self.coordinator._discord_channel is not None:
\*               self.coordinator.record_discord_reconnect()
ReconnectCountAfterReady(channel, count) ==
    IF channel # NoChannel THEN RecordDiscordReconnect(count) ELSE count

\* A failed resolution of the channel that raises instead of returning
ReadyFailureRaises(cause) == [pc |-> "raised", cause |-> cause]

\* on_discord_ready returns.
ReadyReturned(cause) == [pc |-> "returned", cause |-> cause]

\* An exception leaves on_discord_ready and on_ready.
ReadyRaised(cause) == [pc |-> "raised", cause |-> cause]

\* on_discord_ready from "if not self._slash_synced" on, up to its return
\* or the await of tree.sync (the channel is set: the branch that syncs
\* without a channel is never reached)
ReadySyncPart(cause) ==
    IF ~slash_synced THEN [pc |-> "syncing", cause |-> cause]
    ELSE ReadyReturned(cause)

\* on_discord_ready from the isinstance check on, up to the await of
\* channel.send("IRC relay is online."): the task and _discord_channel
ReadyCheckChannelType ==
    IF settings.channel_kind # "text"
    THEN [task |-> ReadyReturned("not_text"), ch |-> discord_channel]
    ELSE [task |-> [pc |-> "announcing", cause |-> "resolved"],
          ch   |-> RelayChannel]

\* on_discord_ready from its first line, up to its return or first await
OnDiscordReadyBegin(cached) ==
    IF discord_channel = NoChannel
    THEN IF settings.discord_channel_id = PlaceholderChannelId
         THEN [task |-> ReadyReturned("placeholder"), ch |-> discord_channel]
         ELSE IF cached
              THEN ReadyCheckChannelType
              ELSE [task |-> [pc |-> "fetching", cause |-> "none"],
                    ch   |-> discord_channel]
    ELSE [task |-> ReadySyncPart("cached"), ch |-> discord_channel]

\* What a step of a ready event leaves alone.
ReadyStepUnchanged ==
    UNCHANGED <<settings, heap, irc_clients, sup, irc_reconnect_count,
                error_count, last_error_time, message_count, now, connects,
                drops, sendcall, next_msg, irc_sent, dropped, health,
                discord_webhook, lock, irc_task, irc_in, next_irc,
                server_webhooks, discord_posts, irc_done, lifecycle_vars, ops_vars>>

\* The k-th READY of the gateway: is_ready() holds, on_ready runs up to the
\* return or the first await of on_discord_ready.
OnReady(k, cached) ==
    LET begun == OnDiscordReadyBegin(cached)
    IN /\ ready_task[k].pc = "none"
       /\ IF k = 1 THEN TRUE ELSE ready_task[k - 1].pc # "none"
       /\ CanBeCached(cached)
       /\ discord_ready' = TRUE
       /\ discord_reconnect_count' =
              ReconnectCountAfterReady(discord_channel, discord_reconnect_count)
       /\ ready_task' = [ready_task EXCEPT ![k] = begun.task]
       /\ discord_channel' = begun.ch
       /\ UNCHANGED <<slash_synced, online_posts, slash_syncs>>
       /\ ReadyStepUnchanged

\* on_resume: record_discord_reconnect()
OnResume ==
    /\ ready_task[1].pc # "none"
    /\ discord_reconnect_count < MaxReady
    /\ discord_reconnect_count' = RecordDiscordReconnect(discord_reconnect_count)
    /\ discord_ready' = TRUE
    /\ UNCHANGED <<ready_task, discord_channel, slash_synced, online_posts,
                   slash_syncs>>
    /\ ReadyStepUnchanged

\* await self.discord_bot.fetch_channel(...) of on_discord_ready is over
ReadyFetchDone(k, result) ==
    LET after == CASE result = "channel" -> ReadyCheckChannelType
                   [] result \in {"NotFound", "Forbidden"} ->
                          [task |-> ReadyReturned(result), ch |-> discord_channel]
                   [] OTHER ->
                          [task |-> ReadyRaised(result), ch |-> discord_channel]
    IN /\ ready_task[k].pc = "fetching"
       /\ result \in FetchResults
       /\ ready_task' = [ready_task EXCEPT ![k] = after.task]
       /\ discord_channel' = after.ch
       /\ UNCHANGED <<discord_ready, discord_reconnect_count, slash_synced,
                      online_posts, slash_syncs>>
       /\ ReadyStepUnchanged

\* What channel.send can answer.
SendResults == {"ok", "Forbidden", "HTTPException"}

\* await channel.send("IRC relay is online.") is over
ReadyAnnounceDone(k, result) ==
    /\ ready_task[k].pc = "announcing"
    /\ ready_task' = [ready_task EXCEPT ![k] =
                         IF result = "HTTPException"
                         THEN ReadyRaised(@.cause)
                         ELSE ReadySyncPart(@.cause)]
    /\ online_posts' = IF result = "ok" THEN online_posts + 1 ELSE online_posts
    /\ UNCHANGED <<discord_ready, discord_channel, discord_reconnect_count,
                   slash_synced, slash_syncs>>
    /\ ReadyStepUnchanged

\* await self.discord_bot.tree.sync(...) is over
ReadySyncDone(k, ok) ==
    /\ ready_task[k].pc = "syncing"
    /\ ready_task' = [ready_task EXCEPT ![k] = ReadyReturned(@.cause)]
    /\ slash_synced' = (slash_synced \/ ok)
    /\ slash_syncs' = IF ok THEN slash_syncs + 1 ELSE slash_syncs
    /\ UNCHANGED <<discord_ready, discord_channel, discord_reconnect_count,
                   online_posts>>
    /\ ReadyStepUnchanged

\* The configurations of the channel, without a webhook URL and with no
\* webhook on the channel.
InitReady ==
    \E n \in 1..MaxNetworks :
        /\ InitRelay(n)
        /\ error_count = 0
        /\ last_error_time = None
        /\ server_webhooks = {}
        /\ \/ settings = SettingsWith(n, PlaceholderChannelId, "missing", NoUrl)
           \/ \E kind \in ChannelKinds :
                  settings = SettingsWith(n, RelayChannelId, kind, NoUrl)

\* Ready events and resumes of the gateway, overlapping with the handling of
\* the channel messages of IRC users (the connections register under the
\* configured nickname; the bot may not manage webhooks, so that messages
\* go out as bot messages, and these sends succeed).
NextReady ==
    \/ \E i \in Nets : SupStart(i)
    \/ \E i \in Nets : ConnectOk(i)
    \/ \E i \in Nets : OnConnect(i, FALSE)
    \/ \E i \in Nets, cached \in BOOLEAN :
           OnMessage(i, heap[sup[i].client].target_channel, <<"A", "l">>,
                     IrcText, cached, FALSE)
    \/ \E i \in Nets, cached \in BOOLEAN : LockAcquired(i, cached, FALSE)
    \/ \E i \in Nets : \E result \in FetchResults : FetchDone(i, result, FALSE)
    \/ \E i \in Nets : ListDone(i, "Forbidden", 0)
    \/ \E i \in Nets : SendDone(i, TRUE)
    \/ \E k \in 1..MaxReady, cached \in BOOLEAN : OnReady(k, cached)
    \/ OnResume
    \/ \E k \in 1..MaxReady : \E result \in FetchResults :
           ReadyFetchDone(k, result)
    \/ \E k \in 1..MaxReady, result \in SendResults :
           ReadyAnnounceDone(k, result)
    \/ \E k \in 1..MaxReady, ok \in BOOLEAN : ReadySyncDone(k, ok)

SpecReady == InitReady /\ [][NextReady]_vars


\* ------------------------------------------------------------------------
\* Claims about the gateway session (SpecReady).

\* Calls of fetch_channel in flight, of on_discord_ready and of
\* _ensure_discord_channel.
FetchesInFlight ==
    Cardinality({i \in Nets : irc_task[i].pc = "fetching"})
    + Cardinality({k \in 1..MaxReady : ready_task[k].pc = "fetching"})

\* C13: for every interleaving of on_discord_ready and handle_irc_message,
\* at most one channel-resolution fetch is in flight at a time, and once the
\* channel is resolved no caller starts a fetch.
C13_OneFetchAtATime ==
    /\ [](FetchesInFlight <= 1)
    /\ [][/\ \A i \in Nets :
                (irc_task'[i].pc = "fetching" /\ irc_task[i].pc # "fetching")
                    => discord_channel = NoChannel
          /\ \A k \in 1..MaxReady :
                (ready_task'[k].pc = "fetching" /\ ready_task[k].pc # "fetching")
                    => discord_channel = NoChannel]_vars

\* C14: when the configured channel id is the placeholder, or resolving it
\* fails with not-found or forbidden, on_discord_ready returns without
\* raising, the channel stays unresolved and no online announcement is
\* posted.
C14_UnresolvedChannelReturns ==
    \A k \in 1..MaxReady :
        ready_task[k].cause \in {"placeholder", "NotFound", "Forbidden"} =>
            /\ ready_task[k].pc = "returned"
            /\ discord_channel = NoChannel
            /\ online_posts = 0

\* C14, its case: two ready events, the fetch of the first was forbidden
\* and the fetch of the second too; both have returned.
C14_Witness ==
    /\ ready_task[1] = [pc |-> "returned", cause |-> "Forbidden"]
    /\ ready_task[2] = [pc |-> "returned", cause |-> "Forbidden"]

\* C16: discord_reconnect_count rises by one on each on_resume and on each
\* on_ready that is not the first ready event, and the first ready event
\* never raises it, whatever IRC message handling does in between.
C16_CountsReconnectionsOnly ==
    [][/\ (ready_task[1].pc = "none" /\ ready_task'[1].pc # "none") =>
              discord_reconnect_count' = discord_reconnect_count
       /\ \A k \in 2..MaxReady :
              (ready_task[k].pc = "none" /\ ready_task'[k].pc # "none") =>
                  discord_reconnect_count' = discord_reconnect_count + 1
       /\ discord_reconnect_count' # discord_reconnect_count =>
              discord_reconnect_count' = discord_reconnect_count + 1]_vars

\* C17: over any sequence and overlap of ready events the online
\* announcement is posted at most once and the slash commands are synced
\* successfully at most once, exactly once when the synced flag is set.
C17_AnnouncedAndSyncedOnce ==
    /\ online_posts <= 1
    /\ slash_syncs <= 1
    /\ slash_synced <=> slash_syncs = 1


\* ------------------------------------------------------------------------
\* The relay with the placeholder channel id.

\* The coordinator configured with the placeholder channel id.
InitPlaceholder ==
    \E n \in 1..MaxNetworks :
        /\ InitRelay(n)
        /\ error_count = 0
        /\ last_error_time = None
        /\ server_webhooks = {}
        /\ settings = SettingsWith(n, PlaceholderChannelId, "missing", NoUrl)

\* Ready events, health reads and Discord messages handed to
\* handle_discord_message while the IRC connections come and go.
NextPlaceholder ==
    \/ \E i \in Nets : SupStart(i)
    \/ \E i \in Nets : ConnectOk(i)
    \/ \E i \in Nets : ConnectionLost(i)
    \/ \E k \in 1..MaxReady : OnReady(k, FALSE)
    \/ GetHealthStats
    \/ \E message \in DiscordMessages : HandleDiscordMessage(message)
    \/ \E ok \in BOOLEAN : SendReturns(ok)

SpecPlaceholder == InitPlaceholder /\ [][NextPlaceholder]_vars

\* C15: with the placeholder channel id configured, on_discord_ready
\* returns without error, get_health_stats reports discord_connected = true
\* once the session is ready, and every send_to_irc call drops its message
\* and records an error.
C15_PlaceholderDropsEverySend ==
    [][/\ \A k \in 1..MaxReady : ready_task'[k].pc \in {"none", "returned"}
       /\ (health'.calls # health.calls /\ discord_ready) =>
              health'.discord_connected
       /\ (sendcall'.pc = "done" /\ sendcall' # sendcall) =>
              /\ ~sendcall'.sent_to_any
              /\ \A j \in Nets : Occurrences(irc_sent'[j], sendcall'.msg) = 0
              /\ error_count' > error_count]_vars


\* ------------------------------------------------------------------------
\* request_restart and shutdown.

\* A slip: the guard of request_restart is missing.
RestartPendingNever(task) == FALSE

\* if self._restart_task and not self._restart_task.done(): return
RestartPending(task) == task.pc \notin {"none", "done"}

\* A slip: os.execv after the await instead of in a finally clause.
ExecOnReturnOnly(raised) == ~raised

\* try: await self.shutdown()  finally: os.execv(...)
ExecInFinally(raised) == TRUE

\* What await asyncio.wait_for(self.discord_bot.close(), timeout=10.0) does.
CloseResults == {"ok", "TimeoutError", "Exception"}

\* A slip: no except clause around the close of the Discord session.
CloseFailureEscapes(result) == result = "ok"

\* except asyncio.TimeoutError / except Exception around the close
CloseOutcomeHandled(result) == TRUE

\* The awaits of shutdown().
ShutdownAwaits == {"closing_discord", "quitting", "forcing", "closing_session"}

\* The process is still this one: os.execv has not replaced it.
Alive == restart_task.pc # "replaced"

\* The network whose client `id` is.
NetworkOf(id) ==
    CHOOSE j \in Nets : heap[id].network_config = settings.irc_networks[j]

\* The last part of shutdown(): the aiohttp session is closed if it is open.
SessionPart(t, open) ==
    IF open
    THEN [t EXCEPT !.pc = "closing_session", !.pos = 0]
    ELSE [t EXCEPT !.pc = "finished", !.pos = 0]

\* shutdown() raises out of an await.
ShutdownRaises(t) ==
    [t EXCEPT !.pc = "finished", !.pos = 0, !.pending = {}, !.raised = TRUE]

\* for client in self.irc_clients: if client.connected: create_task(quit);
\* then the gather of the tasks, if there are any.
IrcPhase(t, h, open) ==
    LET ids == {irc_clients[j] : j \in {k \in Nets : h[irc_clients[k]].connected}}
        t1  == [t EXCEPT !.issued = ids, !.pending = ids]
    IN IF ids = {}
       THEN SessionPart(t1, open)
       ELSE [t1 EXCEPT !.pc = "quitting"]

RECURSIVE ForceScan(_, _, _, _)
\* The loop after the timeout, from slot `from` to its next await:
\* if client.connected: await client.disconnect(expected=True)
ForceScan(t, h, from, open) ==
    IF from > N
    THEN SessionPart(t, open)
    ELSE IF h[irc_clients[from]].connected
         THEN [t EXCEPT !.pc = "forcing", !.pos = from,
                        !.forced = @ \cup {[slot     |-> from,
                                            client   |-> irc_clients[from],
                                            expected |-> TRUE]}]
         ELSE ForceScan([t EXCEPT !.skipped = @ \cup {from}], h, from + 1, open)

\* The restart task goes on as t: when shutdown() has finished, the finally
\* clause calls os.execv, which replaces the process or raises OSError.
Settle(t) ==
    IF t.pc # "finished"
    THEN /\ restart_task' = t
         /\ execs' = execs
    ELSE IF ExecInFinally(t.raised)
         THEN /\ execs' = execs + 1
              /\ \E replaced \in BOOLEAN :
                     restart_task' =
                         [t EXCEPT !.pc = IF replaced THEN "replaced" ELSE "done"]
         ELSE /\ execs' = execs
              /\ restart_task' = [t EXCEPT !.pc = "done"]

\* await coordinator.request_restart()
RequestRestart ==
    /\ Alive
    /\ restart_calls < MaxRestartCalls
    /\ restart_calls' = restart_calls + 1
    /\ IF RestartPending(restart_task)
       THEN UNCHANGED <<restart_task, restart_tasks>>
       ELSE /\ restart_tasks' = restart_tasks + 1
            /\ restart_task' = [NoRestart EXCEPT !.pc = "created"]
    /\ UNCHANGED <<settings, heap, irc_clients, sup, irc_reconnect_count,
                   error_count, last_error_time, message_count, now, connects,
                   drops, sendcall, next_msg, irc_sent, dropped, discord_ready,
                   health, inbound_vars, session_vars, shutdowns, execs,
                   discord_closed, http_open, ops_vars>>

\* What a step of the restart task leaves alone, the clients apart.
RestartStepUnchanged ==
    UNCHANGED <<settings, irc_clients, irc_reconnect_count, error_count,
                last_error_time, message_count, now, connects, sendcall,
                next_msg, irc_sent, dropped, discord_ready, health,
                inbound_vars, session_vars, restart_calls, restart_tasks,
                ops_vars>>

\* The restart task starts: shutdown() runs to its first await.
RestartTaskStart ==
    /\ restart_task.pc = "created"
    /\ shutdowns' = shutdowns + 1
    /\ IF ~discord_closed
       THEN Settle([restart_task EXCEPT !.pc = "closing_discord",
                                        !.close = "pending"])
       ELSE Settle(IrcPhase([restart_task EXCEPT !.close = "skipped"],
                            heap, http_open))
    /\ UNCHANGED <<heap, sup, drops, discord_closed, http_open>>
    /\ RestartStepUnchanged

\* The close of the Discord session returns, times out or raises; `closed`
\* is what is_closed() answers after a close that did not return.
DiscordCloseDone(result, closed) ==
    LET t    == [restart_task EXCEPT !.close = result]
        open == IF result = "ok" THEN FALSE ELSE http_open
    IN /\ restart_task.pc = "closing_discord"
       /\ result = "ok" => closed
       /\ discord_closed' = closed
       /\ http_open' = open
       /\ IF CloseOutcomeHandled(result)
          THEN Settle(IrcPhase(t, heap, open))
          ELSE Settle(ShutdownRaises(t))
       /\ UNCHANGED <<heap, sup, drops, shutdowns>>
       /\ RestartStepUnchanged

\* The task of client.quit(...) for client `id` ends: the quit went out and
\* the connection closed, or the call raised.
QuitDone(id, ok) ==
    LET j == NetworkOf(id)
        h == IF ok THEN Disconnected(heap, id) ELSE heap
    IN /\ restart_task.pc = "quitting"
       /\ id \in restart_task.pending
       /\ restart_task' = [restart_task EXCEPT !.pending = @ \ {id}]
       /\ heap' = h
       /\ drops' = DropsAfter(heap, h, j)
       /\ sup' = IF sup[j].pc = "handle" /\ sup[j].client = id
                 THEN [sup EXCEPT ![j].pc = LoopTop(h, id)]
                 ELSE sup
       /\ UNCHANGED <<shutdowns, execs, discord_closed, http_open>>
       /\ RestartStepUnchanged

\* await asyncio.wait_for(asyncio.gather(...), timeout=5.0) returns.
GatherDone ==
    /\ restart_task.pc = "quitting"
    /\ restart_task.pending = {}
    /\ Settle(SessionPart(restart_task, http_open))
    /\ UNCHANGED <<heap, sup, drops, shutdowns, discord_closed, http_open>>
    /\ RestartStepUnchanged

\* The gather times out: the quit tasks are cancelled and the loop over the
\* clients runs to its first await.
GatherTimeout ==
    /\ restart_task.pc = "quitting"
    /\ restart_task.pending # {}
    /\ Settle(ForceScan([restart_task EXCEPT !.pending = {},
                                             !.timed_out = TRUE],
                        heap, 1, http_open))
    /\ UNCHANGED <<heap, sup, drops, shutdowns, discord_closed, http_open>>
    /\ RestartStepUnchanged

\* await client.disconnect(expected=True) returns or raises.
ForceDone(ok) ==
    LET pos == restart_task.pos
        id  == CHOOSE c \in 1..Len(heap) :
                   [slot |-> pos, client |-> c, expected |-> TRUE]
                       \in restart_task.forced
        j   == NetworkOf(id)
        h   == IF ok THEN Disconnected(heap, id) ELSE heap
    IN /\ restart_task.pc = "forcing"
       /\ heap' = h
       /\ drops' = DropsAfter(heap, h, j)
       /\ sup' = IF sup[j].pc = "handle" /\ sup[j].client = id
                 THEN [sup EXCEPT ![j].pc = LoopTop(h, id)]
                 ELSE sup
       /\ Settle(ForceScan(restart_task, h, pos + 1, http_open))
       /\ UNCHANGED <<shutdowns, discord_closed, http_open>>
       /\ RestartStepUnchanged

\* await session.close() returns or raises.
SessionCloseDone(ok) ==
    /\ restart_task.pc = "closing_session"
    /\ http_open' = ~ok
    /\ Settle([restart_task EXCEPT !.pc = "finished"])
    /\ UNCHANGED <<heap, sup, drops, shutdowns, discord_closed>>
    /\ RestartStepUnchanged

\* The restart task is cancelled while shutdown() waits: CancelledError
\* leaves shutdown().
RestartCancelled ==
    /\ restart_task.pc \in ShutdownAwaits
    /\ Settle(ShutdownRaises(restart_task))
    /\ UNCHANGED <<heap, sup, drops, shutdowns, discord_closed, http_open>>
    /\ RestartStepUnchanged

\* The coordinator with its IRC supervisors about to start.
InitRestart ==
    \E n \in 1..MaxNetworks :
        /\ InitRelay(n)
        /\ error_count = 0
        /\ last_error_time = None
        /\ server_webhooks = {}
        /\ settings = SettingsWith(n, RelayChannelId, "text", NoUrl)

\* Restart requests while the IRC connections come and go.
NextRestart ==
    \/ \E i \in Nets : Alive /\ SupStart(i)
    \/ \E i \in Nets : Alive /\ ConnectOk(i)
    \/ \E i \in Nets : Alive /\ ConnectionLost(i)
    \/ RequestRestart
    \/ RestartTaskStart
    \/ \E result \in CloseResults, closed \in BOOLEAN :
           DiscordCloseDone(result, closed)
    \/ \E id \in 1..Len(heap), ok \in BOOLEAN : QuitDone(id, ok)
    \/ GatherDone
    \/ GatherTimeout
    \/ \E ok \in BOOLEAN : ForceDone(ok)
    \/ \E ok \in BOOLEAN : SessionCloseDone(ok)
    \/ RestartCancelled

SpecRestart == InitRestart /\ [][NextRestart]_vars


\* The restart task has been created and has not finished.
TaskUnfinished == restart_task.pc \in ShutdownAwaits \cup {"created"}

\* C18: request_restart calls made while the restart task has not finished
\* change nothing: a restart task is created only when there is none or the
\* last one is done, and each task starts shutdown() once and os.execv once.
C18_OneRestartWhilePending ==
    /\ [](/\ shutdowns = restart_tasks - (IF restart_task.pc = "created"
                                          THEN 1 ELSE 0)
          /\ execs = restart_tasks - (IF TaskUnfinished THEN 1 ELSE 0))
    /\ [][/\ (restart_calls' # restart_calls /\ TaskUnfinished) =>
                 UNCHANGED <<restart_task, restart_tasks, shutdowns, execs>>
          /\ restart_tasks' # restart_tasks =>
                 /\ restart_task.pc \in {"none", "done"}
                 /\ restart_tasks' = restart_tasks + 1
                 /\ restart_task'.pc = "created"]_vars

\* Three calls, all before the one restart task they created replaced the
\* process.
C18_Witness ==
    /\ restart_calls = 3
    /\ restart_tasks = 1
    /\ shutdowns = 1
    /\ execs = 1
    /\ restart_task.pc = "replaced"

\* C19: os.execv is called only in the step in which shutdown() finishes,
\* it is called in that step whether shutdown() returned or raised, and it
\* has not been called while shutdown() is at one of its awaits.
C19_ExecAfterShutdown ==
    /\ [](restart_task.pc \in ShutdownAwaits => execs = shutdowns - 1)
    /\ [][/\ execs' # execs =>
                 /\ TaskUnfinished
                 /\ restart_task'.pc \in {"done", "replaced"}
                 /\ shutdowns' = execs'
          /\ (TaskUnfinished /\ restart_task'.pc \in {"done", "replaced"}) =>
                 execs' = execs + 1]_vars

\* shutdown() was cancelled while the Discord session was closing, and the
\* process was replaced all the same.
C19_Witness ==
    /\ restart_task.pc = "replaced"
    /\ restart_task.raised
    /\ restart_task.close = "pending"
    /\ execs = 1

\* The clients that are connected.
ConnectedClients == {irc_clients[j] : j \in {k \in Nets : heap[irc_clients[k]].connected}}

\* C20: no quit and no forced disconnect is issued before the close of the
\* Discord session has returned, raised or timed out (or was skipped, the
\* session being closed); whatever the close did, quit is then issued to
\* every connected client; and when the gather timed out, shutdown() goes on
\* only after every slot was examined and each client found connected was
\* disconnected with expected=True.
C20_DiscordThenIrc ==
    /\ [](restart_task.close \in {"none", "pending"} =>
              restart_task.issued = {} /\ restart_task.forced = {})
    /\ [][/\ (restart_task.pc = "closing_discord"
                  /\ restart_task'.close \in CloseResults) =>
                 /\ ~restart_task'.raised
                 /\ restart_task'.issued = ConnectedClients
          /\ (restart_task.pc = "created" /\ restart_task'.close = "skipped") =>
                 restart_task'.issued = ConnectedClients
          /\ (restart_task.pc = "quitting" /\ restart_task.pending # {}
                  /\ restart_task'.pc # "quitting"
                  /\ ~restart_task'.raised) => restart_task'.timed_out
          /\ (restart_task.pc \in {"quitting", "forcing"}
                  /\ restart_task'.pc \notin {"quitting", "forcing"}
                  /\ restart_task'.timed_out
                  /\ ~restart_task'.raised) =>
                 \A j \in Nets :
                     \/ j \in restart_task'.skipped
                     \/ \E f \in restart_task'.forced :
                            f.slot = j /\ f.expected]_vars

\* The close of the Discord session timed out, quit went to two connected
\* clients, the gather timed out and both clients were force-disconnected.
C20_Witness ==
    /\ restart_task.pc \in {"done", "replaced"}
    /\ ~restart_task.raised
    /\ restart_task.close = "TimeoutError"
    /\ Cardinality(restart_task.issued) = 2
    /\ restart_task.timed_out
    /\ Cardinality(restart_task.forced) = 2


\* ------------------------------------------------------------------------
\* stop_irc.

RECURSIVE StopScan(_, _, _)
\* The loop of stop_irc from slot `from` to its next await, or to its return:
\* if client.connected: await client.quit(...)
StopScan(call, h, from) ==
    IF from > N
    THEN [call EXCEPT !.pc = "done", !.pos = 0]
    ELSE IF h[irc_clients[from]].connected
         THEN [call EXCEPT !.pc = "quitting", !.pos = from,
                           !.quit = @ \cup {from}]
         ELSE StopScan(call, h, from + 1)

\* stop_irc() is called: stopped_any = False and the loop runs to its
\* first await.
StopIrcBegin ==
    /\ stopcall.pc \in {"idle", "done"}
    /\ stopcall.calls < MaxStops
    /\ stopcall' = StopScan([NoStop EXCEPT
                                !.calls = stopcall.calls + 1,
                                !.at_call = {j \in Nets :
                                                heap[irc_clients[j]].connected}],
                            heap, 1)
    /\ UNCHANGED <<settings, heap, irc_clients, sup, irc_reconnect_count,
                   error_count, last_error_time, message_count, now, connects,
                   drops, sendcall, next_msg, irc_sent, dropped, discord_ready,
                   health, inbound_vars, session_vars, lifecycle_vars,
                   announce, raw, discord_in,
                   util_vars>>

\* await client.quit(...) returns, the connection closed, or raises
\* (except Exception: logged).
StopQuitDone(ok) ==
    LET pos == stopcall.pos
        id  == irc_clients[pos]
        h   == IF ok THEN Disconnected(heap, id) ELSE heap
    IN /\ stopcall.pc = "quitting"
       /\ heap' = h
       /\ drops' = DropsAfter(heap, h, pos)
       /\ sup' = IF sup[pos].pc = "handle" /\ sup[pos].client = id
                 THEN [sup EXCEPT ![pos].pc = LoopTop(h, id)]
                 ELSE sup
       /\ stopcall' = StopScan([stopcall EXCEPT
                                   !.stopped_any = IF ok THEN TRUE ELSE @],
                               h, pos + 1)
       /\ UNCHANGED <<settings, irc_clients, irc_reconnect_count, error_count,
                      last_error_time, message_count, now, connects, sendcall,
                      next_msg, irc_sent, dropped, discord_ready, health,
                      inbound_vars, session_vars, lifecycle_vars, announce,
                      raw, discord_in,
                   util_vars>>

\* stop_irc calls while the IRC connections come and go.
NextStop ==
    \/ \E i \in Nets : SupStart(i)
    \/ \E i \in Nets : ConnectOk(i)
    \/ \E i \in Nets : ConnectionLost(i)
    \/ StopIrcBegin
    \/ \E ok \in BOOLEAN : StopQuitDone(ok)

SpecStop == Init /\ [][NextStop]_vars

\* C21: a stop_irc call that returns has issued quit to every network that
\* was connected when it was called, and returns true exactly when at least
\* one network was connected then.
C21_StopReportsWhetherConnected ==
    [][(stopcall.pc # "done" /\ stopcall'.pc = "done") =>
           /\ stopcall'.at_call \subseteq stopcall'.quit
           /\ stopcall'.stopped_any <=> stopcall'.at_call # {}]_vars


\* ------------------------------------------------------------------------
\* announce_football_event.

Summary == <<"g", "o", "a", "l">>

\* An exception leaves announce_football_event.
AnnounceRaises(a) == [a EXCEPT !.pc = "raised"]

\* _ensure_discord_channel from the isinstance check on, then the await of
\* channel.send(summary): the call and _discord_channel
AnnounceCheckChannelType(a) ==
    IF settings.channel_kind # "text"
    THEN [call |-> AnnounceRaises([a EXCEPT !.channel = "unresolved"]),
          ch |-> discord_channel]
    ELSE [call |-> [a EXCEPT !.pc = "sending_channel", !.channel = "sending"],
          ch |-> RelayChannel]

\* send_to_discord_webhook(summary) up to its await, or its return when no
\* discord_webhook_url is set
AnnounceWebhookPart(a) ==
    IF settings.discord_webhook_url = NoUrl
    THEN [a EXCEPT !.pc = "done", !.webhook = "not_configured"]
    ELSE [a EXCEPT !.pc = "posting_webhook", !.webhook = "posting"]

\* What follows send_to_irc in the step in which sendcall' was set.
AnnounceAfterIrcStep ==
    announce' = IF sendcall'.pc = "done"
                THEN AnnounceWebhookPart([announce EXCEPT !.irc = "done"])
                ELSE [announce EXCEPT !.pc = "sending_irc", !.irc = "sending"]

\* What no step of the call changes.
AnnounceStepUnchanged ==
    UNCHANGED <<settings, heap, irc_clients, sup, irc_reconnect_count,
                message_count, now, connects, drops, discord_ready, health,
                discord_webhook, irc_task, irc_in, next_irc, server_webhooks,
                irc_done, session_vars, lifecycle_vars, stopcall, raw,
                discord_in,
                   util_vars>>

\* The sinks after the channel that a step did not get to.
AnnounceOtherSinksUnchanged ==
    UNCHANGED <<sendcall, next_msg, irc_sent, dropped, error_count,
                last_error_time>>

\* announce_football_event(summary) is called: _ensure_discord_channel runs
\* to the await of fetch_channel, or raises, or returns the channel and
\* channel.send(summary) is awaited.
AnnounceBegin(cached) ==
    LET a == [NoAnnounce EXCEPT !.calls = announce.calls + 1]
    IN /\ announce.pc \in {"idle", "done", "raised"}
       /\ announce.calls < MaxAnnounce
       /\ lock = <<>>
       /\ CanBeCached(cached)
       /\ IF discord_channel # NoChannel
          THEN /\ announce' = [a EXCEPT !.pc = "sending_channel",
                                        !.channel = "sending"]
               /\ UNCHANGED <<discord_channel, lock>>
          ELSE IF settings.discord_channel_id = PlaceholderChannelId
               THEN /\ announce' = AnnounceRaises([a EXCEPT
                                                      !.channel = "unresolved"])
                    /\ UNCHANGED <<discord_channel, lock>>
               ELSE IF cached
                    THEN /\ announce' = AnnounceCheckChannelType(a).call
                         /\ discord_channel' = AnnounceCheckChannelType(a).ch
                         /\ lock' = lock
                    ELSE /\ announce' = [a EXCEPT !.pc = "fetching"]
                         /\ lock' = <<0>>
                         /\ discord_channel' = discord_channel
       /\ UNCHANGED discord_posts
       /\ AnnounceOtherSinksUnchanged
       /\ AnnounceStepUnchanged

\* await self.discord_bot.fetch_channel(...) is over; the lock is released.
AnnounceFetchDone(result) ==
    LET after == IF result = "channel"
                 THEN AnnounceCheckChannelType(announce)
                 ELSE [call |-> AnnounceRaises([announce EXCEPT
                                                   !.channel = "unresolved"]),
                       ch |-> discord_channel]
    IN /\ announce.pc = "fetching"
       /\ result \in FetchResults
       /\ announce' = after.call
       /\ discord_channel' = after.ch
       /\ lock' = <<>>
       /\ UNCHANGED discord_posts
       /\ AnnounceOtherSinksUnchanged
       /\ AnnounceStepUnchanged

\* await channel.send(summary) is over: it raised, or the summary is posted
\* and send_to_irc(summary) runs to its first await or to its end.
AnnounceChannelSent(result) ==
    /\ announce.pc = "sending_channel"
    /\ result \in SendResults
    /\ IF result = "ok"
       THEN /\ discord_posts' =
                   Append(discord_posts,
                          [msg |-> 0, author |-> <<>>, network_name |-> <<>>,
                           via |-> "bot", username |-> <<"b", "o", "t">>,
                           content |-> Summary,
                           mentions |-> AllowedMentionsDefault])
            /\ SendToIrcBegin(Summary)
            /\ UNCHANGED irc_sent
            /\ AnnounceAfterIrcStep
       ELSE /\ announce' = AnnounceRaises([announce EXCEPT !.channel = "failed"])
            /\ UNCHANGED discord_posts
            /\ AnnounceOtherSinksUnchanged
    /\ UNCHANGED <<discord_channel, lock>>
    /\ AnnounceStepUnchanged

\* await client.message(...) of the send_to_irc call of the announcement
\* returns or raises; after the last one send_to_discord_webhook runs.
AnnounceIrcReturns(ok) ==
    LET j == sendcall.pos
    IN /\ announce.pc = "sending_irc"
       /\ sendcall.pc = "sending"
       /\ IF ok
          THEN /\ irc_sent' = [irc_sent EXCEPT ![j] = Append(@, sendcall.msg)]
               /\ ScanFrom([sendcall EXCEPT !.sent_to_any = TRUE,
                                            !.seen[j] = "sent"], j + 1, 0)
          ELSE /\ irc_sent' = irc_sent
               /\ ScanFrom([sendcall EXCEPT !.seen[j] = "failed"], j + 1, 1)
       /\ AnnounceAfterIrcStep
       /\ UNCHANGED <<next_msg, dropped, discord_channel, lock, discord_posts>>
       /\ AnnounceStepUnchanged

\* The post to discord_webhook_url is over: it succeeded or raised an
\* httpx.HTTPError, which is logged.
AnnounceWebhookDone(ok) ==
    /\ announce.pc = "posting_webhook"
    /\ announce' = [announce EXCEPT
                       !.pc = "done",
                       !.webhook = IF ok THEN "posted" ELSE "failed"]
    /\ UNCHANGED <<discord_channel, lock, discord_posts>>
    /\ AnnounceOtherSinksUnchanged
    /\ AnnounceStepUnchanged

\* The coordinator with any channel configuration, with or without the
\* legacy webhook.
InitAnnounce ==
    \E n \in 1..MaxNetworks, url \in {NoUrl, WebhookUrl} :
        /\ InitRelay(n)
        /\ error_count = 0
        /\ last_error_time = None
        /\ server_webhooks = {}
        /\ \/ settings = SettingsWith(n, PlaceholderChannelId, "missing", url)
           \/ \E kind \in ChannelKinds :
                  settings = SettingsWith(n, RelayChannelId, kind, url)

\* Announcements while the IRC connections come and go.
NextAnnounce ==
    \/ \E i \in Nets : SupStart(i)
    \/ \E i \in Nets : ConnectOk(i)
    \/ \E i \in Nets : ConnectionLost(i)
    \/ \E cached \in BOOLEAN : AnnounceBegin(cached)
    \/ \E result \in FetchResults : AnnounceFetchDone(result)
    \/ \E result \in SendResults : AnnounceChannelSent(result)
    \/ \E ok \in BOOLEAN : AnnounceIrcReturns(ok)
    \/ \E ok \in BOOLEAN : AnnounceWebhookDone(ok)

SpecAnnounce == InitAnnounce /\ [][NextAnnounce]_vars

\* C22: an announce_football_event call that is over has made its attempt
\* on each of the three sinks: whatever became of the Discord channel, the
\* summary went to send_to_irc and to send_to_discord_webhook.
C22_SinksIndependent ==
    [][(announce'.pc \in {"done", "raised"} /\ announce' # announce
            /\ announce.pc \notin {"idle", "done", "raised"}) =>
           /\ announce'.channel # "none"
           /\ announce'.irc = "done"
           /\ announce'.webhook # "none"]_vars


\* ------------------------------------------------------------------------
\* IRCRelayClient.on_raw and on_raw_join.

\* "too many values to unpack"
TooManyValues ==
    <<"t", "o", "o", " ", "m", "a", "n", "y", " ", "v", "a", "l", "u", "e",
      "s", " ", "t", "o", " ", "u", "n", "p", "a", "c", "k">>

\* "not enough values to unpack"
NotEnoughValues ==
    <<"n", "o", "t", " ", "e", "n", "o", "u", "g", "h", " ", "v", "a", "l",
      "u", "e", "s", " ", "t", "o", " ", "u", "n", "p", "a", "c", "k">>

\* "unpack"
Unpack == <<"u", "n", "p", "a", "c", "k">>

\* What str(e) is for the exceptions a handler of a protocol line raises.
ErrorStrings ==
    {TooManyValues \o <<" ", "(", "e", "x", "p", "e", "c", "t", "e", "d", " ", "2", ")">>,
     NotEnoughValues \o <<" ", "(", "e", "x", "p", "e", "c", "t", "e", "d", " ", "2", ")">>,
     <<"c", "a", "n", "n", "o", "t", " ">> \o Unpack \o <<" ", "N", "o", "n", "e">>,
     <<"U", "n", "p", "a", "c", "k", " ", "e", "r", "r", "o", "r">>,
     <<"i", "n", "v", "a", "l", "i", "d", " ", "l", "i", "t", "e", "r", "a", "l">>,
     <<>>}

\* The exceptions of the handlers: ValueError and TypeError, and KeyError
\* for the other subclasses of Exception.
Exceptions ==
    [type : {"ValueError", "TypeError", "KeyError"}, str : ErrorStrings]

\* needle in s
Contains(s, needle) ==
    \E k \in 0..(Len(s) - Len(needle)) : SubSeq(s, k + 1, k + Len(needle)) = needle

\* str.lower() on the alphabet used here
Lower(s) == [k \in 1..Len(s) |-> IF s[k] = "U" THEN "u" ELSE s[k]]

\* on_raw, except ValueError: the else branch, which re-raises
ValueErrorReraised(error_str) ==
    ~(Contains(error_str, TooManyValues) \/ Contains(error_str, NotEnoughValues))

\* on_raw_join: what leaves it when super().on_raw_join(message) raised exc
\* (NoException: it returned)
OnRawJoin(exc) ==
    IF exc.type \in {"ValueError", "TypeError"}
    THEN IF \/ Contains(exc.str, TooManyValues)
            \/ Contains(exc.str, NotEnoughValues)
            \/ Contains(Lower(exc.str), Unpack)
         THEN NoException
         ELSE exc
    ELSE exc

\* on_raw: how it ends when super().on_raw(message) ended with exc
OnRawOutcome(exc) ==
    IF exc = NoException THEN "handled"
    ELSE IF exc.type = "ValueError"
         THEN IF ValueErrorReraised(exc.str) THEN "raised" ELSE "ignored"
         ELSE "error_recorded"

\* on_raw(message) on the connection of network i: the handler of the line
\* (on_raw_join for a JOIN line) returns or raises exc. An exception that
\* leaves on_raw ends the task of the line, or propagates into
\* handle_forever() and to the supervisor.
OnRaw(i, join, exc, propagates) ==
    LET left    == IF join THEN OnRawJoin(exc) ELSE exc
        outcome == OnRawOutcome(left)
    IN /\ sup[i].pc = "handle"
       /\ heap[sup[i].client].connected
       /\ raw.calls < MaxRaw
       /\ propagates => outcome = "raised"
       /\ raw' = [calls |-> raw.calls + 1, network |-> i, join |-> join,
                  exc |-> exc, outcome |-> outcome]
       /\ IF outcome = "error_recorded"
          THEN RecordError
          ELSE UNCHANGED <<error_count, last_error_time>>
       /\ IF propagates
          THEN OnSupervisorError(i, "other", heap)
          ELSE UNCHANGED <<heap, irc_clients, sup, drops>>
       /\ UNCHANGED <<settings, irc_reconnect_count, message_count, now,
                      connects, sendcall, next_msg, irc_sent, dropped,
                      discord_ready, health, inbound_vars, session_vars,
                      lifecycle_vars, stopcall, announce, discord_in,
                   util_vars>>

\* Protocol lines arriving on the connections.
NextRaw ==
    \/ \E i \in Nets : SupStart(i)
    \/ \E i \in Nets : ConnectOk(i)
    \/ \E i \in Nets : ConnectionLost(i)
    \/ \E i \in Nets, raised, still \in BOOLEAN : DisconnectDone(i, raised, still)
    \/ \E i \in Nets : SleepDone(i)
    \/ \E i \in Nets, join, propagates \in BOOLEAN,
          exc \in Exceptions \cup {NoException} : OnRaw(i, join, exc, propagates)

SpecRaw == Init /\ [][NextRaw]_vars

\* C23: no exception leaves on_raw: whatever a handler of a protocol line
\* raised, on_raw returns and the supervisor of the connection sees no error
\* in that step.
C23_NoExceptionLeavesOnRaw ==
    [][raw'.calls # raw.calls =>
           /\ raw'.outcome # "raised"
           /\ sup'[raw'.network].pc = "handle"]_vars


\* ------------------------------------------------------------------------
\* The supervisor loop and its cancellation.

\* The supervisor is inside `while True`: the inner try, or one of its
\* except clauses.
InnerTry == {"connecting", "handle"}
ExceptClause == {"disconnecting", "sleep"}

\* The supervisor is handling CancelledError, or has ended with it.
CancelStates == {"cancel_inner", "cancel_outer", "cancelled"}

\* A slip: except CancelledError clauses that re-raise at once.
SupCancelledNoDisconnect(i) ==
    /\ sup[i].pc \in InnerTry \cup ExceptClause
    /\ sup' = [sup EXCEPT ![i].pc = "cancelled"]
    /\ UNCHANGED <<settings, heap, irc_clients, irc_reconnect_count, error_count,
                   last_error_time, message_count, now, connects, drops,
                   sendcall, next_msg, irc_sent, dropped, discord_vars>>

\* The task of network i is cancelled at its await: the except
\* CancelledError clause of the inner try (for an await inside it) or of the
\* outer try runs to the await of client.disconnect(expected=True), or,
\* the client not being connected, to the raise that ends the task.
SupCancelled(i) ==
    /\ sup[i].pc \in InnerTry \cup ExceptClause
    /\ sup' = [sup EXCEPT ![i].pc =
                  IF ~heap[sup[i].client].connected THEN "cancelled"
                  ELSE IF sup[i].pc \in InnerTry THEN "cancel_inner"
                       ELSE "cancel_outer"]
    /\ UNCHANGED <<settings, heap, irc_clients, irc_reconnect_count, error_count,
                   last_error_time, message_count, now, connects, drops,
                   sendcall, next_msg, irc_sent, dropped, discord_vars>>

\* await client.disconnect(expected=True) of an except CancelledError clause
\* returns or raises (except Exception: pass); the inner clause re-raises
\* into the outer one, which disconnects a client that is still connected.
CancelDisconnectDone(i, ok) ==
    LET id == sup[i].client
        h  == IF ok THEN Disconnected(heap, id) ELSE heap
    IN /\ sup[i].pc \in {"cancel_inner", "cancel_outer"}
       /\ heap' = h
       /\ drops' = DropsAfter(heap, h, i)
       /\ sup' = [sup EXCEPT ![i].pc =
                     IF sup[i].pc = "cancel_inner" /\ h[id].connected
                     THEN "cancel_outer"
                     ELSE "cancelled"]
       /\ UNCHANGED <<settings, irc_clients, irc_reconnect_count, error_count,
                      last_error_time, message_count, now, connects, sendcall,
                      next_msg, irc_sent, dropped, discord_vars>>

\* The supervisors with every error of connect() and handle_forever(), and
\* the cancellation of their tasks.
NextSupervised ==
    \/ \E i \in Nets : SupStart(i)
    \/ \E i \in Nets : ConnectOk(i)
    \/ \E i \in Nets, e \in ErrorKinds : ConnectFail(i, e)
    \/ \E i \in Nets : OnConnect(i, FALSE)
    \/ \E i \in Nets : ConnectionLost(i)
    \/ \E i \in Nets, e \in ErrorKinds, still \in BOOLEAN : HandleRaise(i, e, still)
    \/ \E i \in Nets, raised, still \in BOOLEAN : DisconnectDone(i, raised, still)
    \/ \E i \in Nets : SleepDone(i)
    \/ \E i \in Nets : SupCancelled(i)
    \/ \E i \in Nets, ok \in BOOLEAN : CancelDisconnectDone(i, ok)

SpecSupervised == Init /\ [][NextSupervised]_vars

C25_SupervisorErrorsCounted ==
    [][\A i \in Nets :
           (sup[i].pc \in InnerTry /\ sup'[i].pc \in ExceptClause) =>
               error_count' > error_count]_vars


\* ------------------------------------------------------------------------
\* The order of the posts of one connection.

\* on_message at connection i for a channel message of an IRC user, the
\* handlers of the lines of a connection running as tasks of their own:
\* task t (any that is free) runs on_message up to the first await of
\* handle_irc_message, while the task of an earlier line may be at an await.
OnMessageLine(i, t, cached, session) ==
    LET c == heap[sup[i].client]
    IN /\ sup[i].pc = "handle"
       /\ c.connected /\ c.registered
       /\ irc_task[t].pc = "idle"
       /\ CanBeCached(cached) /\ CanHaveSession(session)
       /\ TargetMatches(c, c.target_channel) /\ ~IsEcho(c, <<"A", "l">>)
       /\ irc_in' = [net |-> i, target |-> c.target_channel,
                     source |-> <<"A", "l">>]
       /\ next_irc <= MaxIrcMsgs
       /\ next_irc' = next_irc + 1
       /\ RecordMessage
       /\ Commit(t, EnsureDiscordChannel(
              [CallState(t) EXCEPT
                  !.task = [IdleTask EXCEPT
                               !.msg = next_irc,
                               !.author = <<"A", "l">>,
                               !.network_name = c.network_config.server,
                               !.content = IrcText]],
              t, cached, session))
       /\ UNCHANGED <<settings, heap, irc_clients, sup, irc_reconnect_count,
                      now, connects, drops, sendcall, next_msg, irc_sent,
                      dropped, discord_ready, health, session_vars,
                      lifecycle_vars, ops_vars>>

\* Channel messages of IRC users, handled by tasks that overlap.
NextOrder ==
    \/ \E i \in Nets : SupStart(i)
    \/ \E i \in Nets : ConnectOk(i)
    \/ \E i \in Nets : OnConnect(i, FALSE)
    \/ \E i \in Nets, t \in Nets, cached \in BOOLEAN :
           OnMessageLine(i, t, cached, FALSE)
    \/ \E t \in Nets, cached \in BOOLEAN : LockAcquired(t, cached, FALSE)
    \/ \E t \in Nets : \E result \in FetchResults : FetchDone(t, result, FALSE)
    \/ \E t \in Nets, result \in WebhookResults :
           \E found \in 0..(MaxIrcMsgs + 1) : ListDone(t, result, found)
    \/ \E t \in Nets, result \in WebhookResults : CreateDone(t, result)
    \/ \E t \in Nets, ok \in BOOLEAN : SendDone(t, ok)

SpecOrder == Init /\ [][NextOrder]_vars

\* C26: the posts of the messages received on one connection are in
\* discord_posts in the order in which the messages were received (the ids
\* of the messages rise with the order of receipt).
C26_OrderKeptPerConnection ==
    \A p, q \in DOMAIN discord_posts :
        (p < q /\ discord_posts[p].network_name = discord_posts[q].network_name) =>
            discord_posts[p].msg < discord_posts[q].msg


\* ------------------------------------------------------------------------
\* DiscordRelayBot.on_message.

\* The id of a channel other than the configured one.
OtherChannelId == "400000000000000002"

\* A message of a user or of a bot account in a channel.
GatewayMessage(bot, channel_id, message) ==
    [author_bot |-> bot, channel_id |-> channel_id,
     display_name |-> message.display_name,
     clean_content |-> message.clean_content,
     attachments |-> message.attachments]

\* What the gateway delivers for a post of the relay: the author of a post
\* made through a webhook or by the bot is a bot account.
EchoOf(post) ==
    [author_bot |-> TRUE, channel_id |-> settings.discord_channel_id,
     display_name |-> post.username, clean_content |-> post.content,
     attachments |-> <<>>]

\* The messages the gateway can deliver: every kind of message of a user in
\* the configured channel, a message with text of a user elsewhere and of a
\* bot account in either channel, and the posts of the relay.
GatewayMessages ==
    {GatewayMessage(FALSE, RelayChannelId, message) : message \in DiscordMessages}
    \cup {GatewayMessage(bot, channel_id, DiscordMessage(<<"h", "i">>, <<>>)) :
              bot \in BOOLEAN, channel_id \in {RelayChannelId, OtherChannelId}}
    \cup {EchoOf(discord_posts[p]) : p \in DOMAIN discord_posts}

\* A slip: on_message without the test of the author.
AuthorIgnoredNever(message) == FALSE

\* if message.author.bot: return
AuthorIgnored(message) == message.author_bot

\* if message.channel.id != self.coordinator.settings.discord_channel_id: return
ChannelIgnored(message) == message.channel_id # settings.discord_channel_id

\* DiscordRelayBot.on_message(message), up to its return or the first await
\* of send_to_irc in handle_discord_message.
DiscordOnMessage(message) ==
    /\ message \in GatewayMessages
    /\ discord_in' = message
    /\ IF AuthorIgnored(message) \/ ChannelIgnored(message)
       THEN UNCHANGED <<message_count, sendcall, next_msg, dropped, error_count,
                        last_error_time>>
       ELSE /\ RecordMessage
            /\ IF Content(message) = <<>>
               THEN /\ sendcall.pc \in {"idle", "done"}
                    /\ next_msg <= MaxMsgs
                    /\ next_msg' = next_msg + 1
                    /\ UNCHANGED <<sendcall, dropped, error_count,
                                   last_error_time>>
               ELSE SendToIrcBegin(IrcLine(message))
    /\ UNCHANGED <<settings, heap, irc_clients, sup, irc_reconnect_count, now,
                   connects, drops, irc_sent, discord_ready, health,
                   inbound_vars, session_vars, lifecycle_vars, stopcall,
                   announce, raw, util_vars>>

\* Discord messages of users and bots in two channels, and the posts of the
\* relay for the channel messages of IRC users coming back from the gateway.
NextDiscordIn ==
    \/ \E i \in Nets : SupStart(i)
    \/ \E i \in Nets : ConnectOk(i)
    \/ \E i \in Nets : OnConnect(i, FALSE)
    \/ OnMessage(1, heap[sup[1].client].target_channel, <<"A", "l">>, IrcText,
                 TRUE, FALSE)
    \/ \E result \in {"ok", "Forbidden"} : ListDone(1, result, 0)
    \/ CreateDone(1, "ok")
    \/ SendDone(1, TRUE)
    \/ \E message \in GatewayMessages : DiscordOnMessage(message)
    \/ \E ok \in BOOLEAN : SendReturns(ok)

SpecDiscordIn == Init /\ [][NextDiscordIn]_vars

\* C27: a send_to_irc call starts in on_message only for a message whose
\* author is not a bot account, whose channel is the configured one and
\* whose text and attachments give a non-empty line, and it sends that line;
\* a message delivered for a post of the relay starts none.
C27_ForwardsOnlyUserMessages ==
    [][/\ sendcall'.msg # sendcall.msg =>
              /\ ~discord_in'.author_bot
              /\ discord_in'.channel_id = settings.discord_channel_id
              /\ \/ discord_in'.clean_content # <<>>
                 \/ discord_in'.attachments # <<>>
              /\ sendcall'.text = IrcLine(discord_in')
              /\ sendcall'.text # <<"<">> \o discord_in'.display_name \o <<">", " ">>
       /\ (discord_in' # discord_in
               /\ \E p \in DOMAIN discord_posts :
                      discord_in' = EchoOf(discord_posts[p])) =>
              sendcall' = sendcall]_vars

\* A message of a user went to IRC, and the post of the relay for an IRC
\* message came back from the gateway and went nowhere.
C27_Witness ==
    /\ discord_posts # <<>>
    /\ discord_in = EchoOf(discord_posts[1])
    /\ \E j \in Nets : irc_sent[j] # <<>>
    /\ sendcall.pc = "done"
    /\ next_msg = 2


\* ------------------------------------------------------------------------
\* utils.py: chunk_text.

\* The longest text given to chunk_text.
MaxText == 5

\* The largest max_length given to chunk_text.
MaxChunk == 3

\* The characters of the texts: a letter and the newline.
Chars == {"a", "\n"}

\* The texts of at most MaxText characters.
Texts == UNION {[1..k -> Chars] : k \in 0..MaxText}

\* TRUE when text starts with sep.
StartsWith(text, sep) ==
    /\ Len(text) >= Len(sep)
    /\ SubSeq(text, 1, Len(sep)) = sep

\* text.split(separator), for a separator that is not empty: the pieces
\* between the occurrences of the separator found from the left; cur is the
\* piece being read.
RECURSIVE SplitFrom(_, _, _)
SplitFrom(text, sep, cur) ==
    IF text = <<>>
    THEN <<cur>>
    ELSE IF StartsWith(text, sep)
         THEN <<cur>> \o SplitFrom(SubSeq(text, Len(sep) + 1, Len(text)), sep, <<>>)
         ELSE SplitFrom(Tail(text), sep, Append(cur, Head(text)))

Split(text, sep) == SplitFrom(text, sep, <<>>)

\* The loop of chunk_text over the lines from index k on, with the chunks
\* made so far and the current chunk; then the append of the last chunk.
RECURSIVE ChunkLoop(_, _, _, _, _, _)
ChunkLoop(lines, k, chunks, current_chunk, max_length, separator) ==
    IF k > Len(lines)
    THEN IF current_chunk # <<>> THEN Append(chunks, current_chunk) ELSE chunks
    ELSE LET line == lines[k]
         IN IF Len(current_chunk) + Len(line) + Len(separator) <= max_length
            THEN ChunkLoop(lines, k + 1, chunks,
                           IF current_chunk # <<>>
                           THEN current_chunk \o separator \o line
                           ELSE line,
                           max_length, separator)
            ELSE ChunkLoop(lines, k + 1,
                           IF current_chunk # <<>>
                           THEN Append(chunks, current_chunk)
                           ELSE chunks,
                           line, max_length, separator)

\* chunk_text(text, max_length, separator)
chunk_text(text, max_length, separator) ==
    IF Len(text) <= max_length
    THEN <<text>>
    ELSE ChunkLoop(Split(text, separator), 1, <<>>, <<>>, max_length, separator)

\* The call of chunk_text returns.
ChunkTextReturns ==
    /\ chunk.pc = "called"
    /\ chunk' = [chunk EXCEPT
                    !.pc = "returned",
                    !.result = chunk_text(chunk.text, chunk.max_length,
                                          chunk.separator)]
    /\ UNCHANGED <<settings, heap, irc_clients, sup, irc_reconnect_count,
                   error_count, last_error_time, message_count, now, connects,
                   drops, sendcall, next_msg, irc_sent, dropped, discord_ready,
                   health, inbound_vars, session_vars, lifecycle_vars, call_vars,
                   uptime, store_vars, log_vars, mute_vars>>

\* The coordinator and the store as constructed.
InitUtil ==
    /\ InitState(1)
    /\ user_warnings = EmptyDict
    /\ warncall = NoWarnCall
    /\ LogsIdle
    /\ MutesIdle
    /\ settings = SettingsWith(1, RelayChannelId, "text", NoUrl)
    /\ server_webhooks = {}
    /\ error_count = 0
    /\ last_error_time = None

\* chunk_text called with a text, a max_length and the newline as separator.
InitChunk ==
    /\ InitUtil
    /\ uptime = NoUptime
    /\ \E text \in Texts, max_length \in 1..MaxChunk :
           chunk = [pc |-> "called", text |-> text, max_length |-> max_length,
                    separator |-> <<"\n">>, result |-> <<>>]

NextChunk == ChunkTextReturns

SpecChunk == InitChunk /\ [][NextChunk]_vars

\* C28: no chunk chunk_text returns is longer than max_length, whether or
\* not the text has the separator in it.
C28_ChunksWithinMaxLength ==
    chunk.pc = "returned" =>
        \A k \in DOMAIN chunk.result : Len(chunk.result[k]) <= chunk.max_length

\* ------------------------------------------------------------------------
\* utils.py: format_uptime.

\* The largest number of days in an uptime.
MaxDays == 1

\* The uptimes: negative ones, and those of some days, hours, minutes and
\* seconds.
Uptimes ==
    {-10, -1}
    \cup {d * 86400 + h * 3600 + m * 60 + sec :
              d \in 0..MaxDays, h \in {0, 1, 23}, m \in {0, 1, 59},
              sec \in {0, 1, 30, 59}}

\* " ".join(parts)
RECURSIVE JoinParts(_)
JoinParts(parts) ==
    IF parts = <<>>
    THEN ""
    ELSE IF Len(parts) = 1
         THEN parts[1]
         ELSE parts[1] \o " " \o JoinParts(Tail(parts))

\* parts after the tests of days, hours and minutes
UptimeParts(days, hours, minutes) ==
    (IF days > 0 THEN <<ToString(days) \o "d">> ELSE <<>>)
    \o (IF hours > 0 THEN <<ToString(hours) \o "h">> ELSE <<>>)
    \o (IF minutes > 0 THEN <<ToString(minutes) \o "m">> ELSE <<>>)

\* format_uptime(seconds), for a whole number of seconds
format_uptime(seconds) ==
    IF seconds < 0
    THEN "0s"
    ELSE LET days == seconds \div 86400
             hours == (seconds % 86400) \div 3600
             minutes == (seconds % 3600) \div 60
             secs == seconds % 60
             parts == UptimeParts(days, hours, minutes)
             all == IF secs > 0 /\ Len(parts) < 2
                    THEN Append(parts, ToString(secs) \o "s")
                    ELSE parts
         IN IF all # <<>> THEN JoinParts(all) ELSE "0s"

\* The call of format_uptime returns.
FormatUptimeReturns ==
    /\ uptime.pc = "called"
    /\ uptime' = [uptime EXCEPT !.pc = "returned",
                                !.result = format_uptime(uptime.seconds)]
    /\ UNCHANGED <<settings, heap, irc_clients, sup, irc_reconnect_count,
                   error_count, last_error_time, message_count, now, connects,
                   drops, sendcall, next_msg, irc_sent, dropped, discord_ready,
                   health, inbound_vars, session_vars, lifecycle_vars, call_vars,
                   chunk, store_vars, log_vars, mute_vars>>

\* format_uptime called with an uptime.
InitUptime ==
    /\ InitUtil
    /\ chunk = NoChunk
    /\ \E seconds \in Uptimes :
           uptime = [pc |-> "called", seconds |-> seconds, result |-> ""]

NextUptime == FormatUptimeReturns

SpecUptime == InitUptime /\ [][NextUptime]_vars

\* What the uptime reads as when the seconds are shown only under one
\* minute.
SecondsUnderOneMinuteOnly(seconds) ==
    IF seconds <= 0
    THEN "0s"
    ELSE IF seconds < 60
         THEN ToString(seconds) \o "s"
         ELSE JoinParts(UptimeParts(seconds \div 86400,
                                    (seconds % 86400) \div 3600,
                                    (seconds % 3600) \div 60))

\* C29: format_uptime returns "0s" for zero or a negative number, and
\* otherwise the days, hours and minutes that are not zero, in this order,
\* with the seconds only for an uptime under one minute.
C29_SecondsOnlyUnderOneMinute ==
    uptime.pc = "returned" =>
        uptime.result = SecondsUnderOneMinuteOnly(uptime.seconds)


\* ------------------------------------------------------------------------
\* storage.py: the warnings of the ConfigStore.

\* The most warnings of one user.
MaxWarnings == 2

\* str(guild_id), str(user_id)
GuildKeys == {"123", "124"}
UserKeys == {"456", "457"}

\* d[k] = v
Put(d, k, v) == [x \in DOMAIN d \cup {k} |-> IF x = k THEN v ELSE d[x]]

\* del d[k]
Del(d, k) == [x \in DOMAIN d \ {k} |-> d[x]]

\* warnings.pop(index), with index counted from 0
Pop(warnings, index) ==
    SubSeq(warnings, 1, index) \o SubSeq(warnings, index + 2, Len(warnings))

\* guild_key in self._user_warnings and user_key in self._user_warnings[guild_key]
HasUserKey(guild_key, user_key) ==
    /\ guild_key \in DOMAIN user_warnings
    /\ user_key \in DOMAIN user_warnings[guild_key]

\* get_warnings(guild_id, user_id)
get_warnings(guild_key, user_key) ==
    IF HasUserKey(guild_key, user_key)
    THEN user_warnings[guild_key][user_key]
    ELSE <<>>

WarnStepUnchanged ==
    UNCHANGED <<settings, heap, irc_clients, sup, irc_reconnect_count,
                error_count, last_error_time, message_count, now, connects,
                drops, sendcall, next_msg, irc_sent, dropped, discord_ready,
                health, inbound_vars, session_vars, lifecycle_vars, call_vars,
                chunk, uptime, log_vars, mute_vars>>

\* add_warning(guild_id, user_id, reason, moderator_id)
add_warning(guild_key, user_key, reason) ==
    LET guilds == IF guild_key \notin DOMAIN user_warnings
                  THEN Put(user_warnings, guild_key, EmptyDict)
                  ELSE user_warnings
        users == IF user_key \notin DOMAIN guilds[guild_key]
                 THEN Put(guilds[guild_key], user_key, <<>>)
                 ELSE guilds[guild_key]
        warning == [reason |-> reason, moderator_id |-> "789"]
        warnings == Append(users[user_key], warning)
    IN /\ Len(get_warnings(guild_key, user_key)) < MaxWarnings
       /\ user_warnings' = Put(guilds, guild_key, Put(users, user_key, warnings))
       /\ warncall' = [op |-> "add_warning", guild_key |-> guild_key,
                       user_key |-> user_key, index |-> 0,
                       had |-> Len(get_warnings(guild_key, user_key)),
                       result |-> Len(warnings)]
       /\ WarnStepUnchanged

\* clear_warnings(guild_id, user_id)
clear_warnings(guild_key, user_key) ==
    /\ IF HasUserKey(guild_key, user_key)
       THEN /\ user_warnings' =
                   Put(user_warnings, guild_key,
                       Del(user_warnings[guild_key], user_key))
            /\ warncall' = [op |-> "clear_warnings", guild_key |-> guild_key,
                            user_key |-> user_key, index |-> 0,
                            had |-> Len(get_warnings(guild_key, user_key)),
                            result |-> TRUE]
       ELSE /\ user_warnings' = user_warnings
            /\ warncall' = [op |-> "clear_warnings", guild_key |-> guild_key,
                            user_key |-> user_key, index |-> 0,
                            had |-> Len(get_warnings(guild_key, user_key)),
                            result |-> FALSE]
    /\ WarnStepUnchanged

\* remove_warning(guild_id, user_id, index)
remove_warning(guild_key, user_key, index) ==
    /\ IF /\ HasUserKey(guild_key, user_key)
          /\ 0 <= index
          /\ index < Len(user_warnings[guild_key][user_key])
       THEN /\ user_warnings' =
                   Put(user_warnings, guild_key,
                       Put(user_warnings[guild_key], user_key,
                           Pop(user_warnings[guild_key][user_key], index)))
            /\ warncall' = [op |-> "remove_warning", guild_key |-> guild_key,
                            user_key |-> user_key, index |-> index,
                            had |-> Len(get_warnings(guild_key, user_key)),
                            result |-> TRUE]
       ELSE /\ user_warnings' = user_warnings
            /\ warncall' = [op |-> "remove_warning", guild_key |-> guild_key,
                            user_key |-> user_key, index |-> index,
                            had |-> Len(get_warnings(guild_key, user_key)),
                            result |-> FALSE]
    /\ WarnStepUnchanged

\* A new ConfigStore.
InitWarnings ==
    /\ InitUtil
    /\ chunk = NoChunk
    /\ uptime = NoUptime

\* Any sequence of calls on the warnings.
NextWarnings ==
    \/ \E guild_key \in GuildKeys, user_key \in UserKeys,
          reason \in {"spam", "flood"} : add_warning(guild_key, user_key, reason)
    \/ \E guild_key \in GuildKeys, user_key \in UserKeys :
           clear_warnings(guild_key, user_key)
    \/ \E guild_key \in GuildKeys, user_key \in UserKeys,
          index \in -1..MaxWarnings : remove_warning(guild_key, user_key, index)

SpecWarnings == InitWarnings /\ [][NextWarnings]_vars

\* C30: clear_warnings returns True exactly when the user had at least one
\* warning in the guild at the call, and leaves the user with none.
C30_ClearReportsWhetherWarned ==
    warncall.op = "clear_warnings" =>
        /\ warncall.result = (warncall.had > 0)
        /\ get_warnings(warncall.guild_key, warncall.user_key) = <<>>


\* ------------------------------------------------------------------------
\* storage.py: the moderation logs of the ConfigStore.

\* The number of entries add_moderation_log keeps (1000 in the source,
\* scaled down).
MaxKept == 3

\* The most add_moderation_log calls.
MaxLogAdds == 5

\* The largest limit given to get_moderation_logs.
MaxLimit == 4

\* list[start:] of Python: a negative start counts from the end, and a start
\* outside the list is clipped.
SliceFrom(list, start) ==
    LET from == IF start < 0
                THEN (IF Len(list) + start < 0 THEN 0 ELSE Len(list) + start)
                ELSE (IF start > Len(list) THEN Len(list) ELSE start)
    IN SubSeq(list, from + 1, Len(list))

LogStepUnchanged ==
    UNCHANGED <<settings, heap, irc_clients, sup, irc_reconnect_count,
                error_count, last_error_time, message_count, now, connects,
                drops, sendcall, next_msg, irc_sent, dropped, discord_ready,
                health, inbound_vars, session_vars, lifecycle_vars, call_vars,
                chunk, uptime, store_vars, mute_vars>>

\* add_moderation_log(log_entry); the entries are numbered as they are added.
add_moderation_log ==
    LET appended == Append(moderation_logs, log_added + 1)
    IN /\ log_added < MaxLogAdds
       /\ log_added' = log_added + 1
       /\ moderation_logs' = IF Len(appended) > MaxKept
                             THEN SliceFrom(appended, -MaxKept)
                             ELSE appended
       /\ UNCHANGED logcall
       /\ LogStepUnchanged

\* get_moderation_logs(limit)
get_moderation_logs(limit) ==
    /\ logcall' = [pc |-> "returned", limit |-> limit,
                   result |-> SliceFrom(moderation_logs, -limit)]
    /\ UNCHANGED <<moderation_logs, log_added>>
    /\ LogStepUnchanged

\* A new ConfigStore.
InitLogs ==
    /\ InitUtil
    /\ chunk = NoChunk
    /\ uptime = NoUptime

\* Any sequence of additions and reads; the API passes any integer up to 500
\* as the limit, and the limits here are those that are not negative.
NextLogs ==
    \/ add_moderation_log
    \/ \E limit \in 0..MaxLimit : get_moderation_logs(limit)

SpecLogs == InitLogs /\ [][NextLogs]_vars

\* The k most recently added entries, the most recent last.
MostRecent(k) ==
    LET have == IF log_added < k THEN log_added ELSE k
    IN [x \in 1..have |-> log_added - have + x]

\* C31: get_moderation_logs(limit) returns at most limit entries, and they
\* are the most recently added ones in the order of their insertion.
C31_AtMostLimitMostRecent ==
    logcall.pc = "returned" =>
        /\ Len(logcall.result) <= logcall.limit
        /\ logcall.result = MostRecent(Len(logcall.result))


\* ------------------------------------------------------------------------
\* The supervisor loop with the seconds of its sleeps.

\* One second of await asyncio.sleep(delay) passes for supervisor i.
SleepSecond(i) ==
    /\ sup[i].pc = "sleep"
    /\ sup[i].delay > 0
    /\ sup' = [sup EXCEPT ![i].delay = @ - 1]
    /\ UNCHANGED <<settings, heap, irc_clients, irc_reconnect_count, error_count,
                   last_error_time, message_count, now, connects, drops,
                   sendcall, next_msg, irc_sent, dropped, discord_vars>>

\* await asyncio.sleep(delay) returns when its seconds have passed; continue.
SleepElapsed(i) ==
    /\ sup[i].delay = 0
    /\ SleepDone(i)

\* The supervisors, their errors, and the time their sleeps take.
NextBackoff ==
    \/ \E i \in Nets : SupStart(i)
    \/ \E i \in Nets : ConnectOk(i)
    \/ \E i \in Nets, e \in ErrorKinds : ConnectFail(i, e)
    \/ \E i \in Nets : OnConnect(i, FALSE)
    \/ \E i \in Nets : ConnectionLost(i)
    \/ \E i \in Nets, e \in ErrorKinds, still \in BOOLEAN : HandleRaise(i, e, still)
    \/ \E i \in Nets, raised, still \in BOOLEAN : DisconnectDone(i, raised, still)
    \/ \E i \in Nets : SleepSecond(i)
    \/ \E i \in Nets : SleepElapsed(i)

SpecBackoff == Init /\ [][NextBackoff]_vars

C33_SleepBetweenConnects ==
    [][\A i \in Nets :
           (sup[i].pc \notin {"start", "connecting"} /\ sup'[i].pc = "connecting") =>
               sup[i].pc = "sleep"]_vars


\* C34: a supervisor cancelled while the client at its index is connected
\* awaits disconnect(expected=True) on that client before its task ends,
\* wherever in the loop it was; and a cancelled supervisor stays cancelled
\* and connects no client of its network.
C34_CancelDisconnects ==
    [][\A i \in Nets :
           /\ (/\ sup[i].pc \notin CancelStates
               /\ sup'[i].pc \in CancelStates
               /\ heap[irc_clients[i]].connected) =>
                  /\ sup'[i].pc \in {"cancel_inner", "cancel_outer"}
                  /\ sup'[i].client = irc_clients[i]
           /\ sup[i].pc \in CancelStates =>
                  /\ sup'[i].pc \in CancelStates
                  /\ sup'[i].pc \in {"cancel_inner", "cancel_outer"} =>
                         heap[sup[i].client].connected
                  /\ \A id \in DOMAIN heap :
                         (heap[id].network_config = settings.irc_networks[i]
                              /\ heap'[id].connected) => heap[id].connected]_vars

\* The supervisor of network 1 was cancelled while its client was replaced or
\* after a disconnect that failed, the client is still connected and
\* disconnect(expected=True) is awaited on it.
C34_Witness ==
    /\ sup[1].pc = "cancel_outer"
    /\ sup[1].client = irc_clients[1]
    /\ heap[irc_clients[1]].connected


\* The clients of network i with a connect in flight: the one the supervisor
\* awaits connect() on, and those that started a connect themselves.
ConnectsInFlight(i) ==
    {id \in DOMAIN heap :
         /\ heap[id].network_config = settings.irc_networks[i]
         /\ \/ heap[id].own_connect
            \/ sup[i].pc = "connecting" /\ sup[i].client = id}

\* C35: no client starts a connect of its own when it is disconnected; a
\* connect of network i is awaited by supervisor i on the client stored at
\* index i; at most one connect per network is in flight; and a client
\* becomes connected only through the connect its supervisor awaited.
C35_SupervisorAloneConnects ==
    /\ [](\A i \in Nets :
              /\ Cardinality(ConnectsInFlight(i)) <= 1
              /\ sup[i].pc = "connecting" => sup[i].client = irc_clients[i])
    /\ [](\A id \in DOMAIN heap : ~heap[id].own_connect)
    /\ [][\A id \in DOMAIN heap :
              (~heap[id].connected /\ heap'[id].connected) =>
                  \E i \in Nets :
                      /\ sup[i].pc = "connecting"
                      /\ sup[i].client = id
                      /\ irc_clients[i] = id
                      /\ heap[id].network_config = settings.irc_networks[i]]_vars

\* The connection of network 1 was lost after it had registered, its
\* on_disconnect ran, and the supervisor awaits connect() on the same client.
C35_Witness ==
    /\ sup[1].pc = "connecting"
    /\ drops[1]
    /\ Len(heap) = N
    /\ ConnectsInFlight(1) = {irc_clients[1]}


\* C37: the error handling of supervisor i, with its call of
\* _recreate_irc_client(i), leaves the list at its length and changes no
\* entry other than i: for every other index the client object, its
\* connected state and its first-connect flag stay as they were; and a call
\* of _recreate_irc_client with an index outside the list changes nothing.
C37_OnlyOwnEntryChanges ==
    [][/\ \A i \in Nets :
              (\/ \E e \in ErrorKinds : ConnectFail(i, e)
               \/ \E e \in ErrorKinds, still \in BOOLEAN : HandleRaise(i, e, still)
               \/ \E raised, still \in BOOLEAN : DisconnectDone(i, raised, still)) =>
                  /\ Len(irc_clients') = Len(irc_clients)
                  /\ \A j \in Nets \ {i} :
                         /\ irc_clients'[j] = irc_clients[j]
                         /\ heap'[irc_clients[j]].connected =
                                heap[irc_clients[j]].connected
                         /\ heap'[irc_clients[j]].is_first_connect =
                                heap[irc_clients[j]].is_first_connect
       /\ \A client_index \in 0..MaxNetworks :
              RecreateOutOfRange(client_index) =>
                  UNCHANGED <<heap, irc_clients, sup>>]_vars

\* The client of network 1 was replaced while the client of network 2, the
\* one made at construction, is connected and registered.
C37_Witness ==
    /\ N = 2
    /\ irc_clients[1] > N
    /\ irc_clients[2] = 2
    /\ heap[2].connected
    /\ ~heap[2].is_first_connect


\* The ways on_discord_ready ends without a relay channel.
NoChannelCauses == {"placeholder", "NotFound", "Forbidden", "not_text"}

\* C36: an on_discord_ready that ends without a relay channel returns after
\* the await of tree.sync(), unless the commands were synced before.
C36_FallbackSyncWithoutChannel ==
    [][\A k \in 1..MaxReady :
           (/\ ready_task[k].pc # "returned"
            /\ ready_task'[k].pc = "returned"
            /\ ready_task'[k].cause \in NoChannelCauses) =>
               \/ ready_task[k].pc = "syncing"
               \/ slash_synced]_vars


\* C38: when shutdown() returns, no client of the list is connected; and a
\* client that shutdown() quit and that is disconnected does not become
\* connected again.
C38_NoneConnectedAfterShutdown ==
    [][/\ (/\ restart_task.pc \notin {"done", "replaced"}
           /\ restart_task'.pc \in {"done", "replaced"}
           /\ ~restart_task'.raised) =>
              \A j \in Nets : ~heap'[irc_clients'[j]].connected
       /\ \A id \in DOMAIN heap :
              (id \in restart_task.issued /\ ~heap[id].connected) =>
                  ~heap'[id].connected]_vars


\* C39: a network whose quit by stop_irc() is over and that is disconnected
\* is not connected again by its supervisor.
C39_StoppedStaysDisconnected ==
    [][\A j \in Nets :
           (/\ j \in stopcall.quit
            /\ stopcall.pos # j
            /\ ~heap[irc_clients[j]].connected) =>
               ~heap'[irc_clients'[j]].connected]_vars


\* ------------------------------------------------------------------------
\* cogs/moderation.py: the timed mutes.

\* The most timed-unmute tasks created.
MaxMuteTasks == 3

\* member.id
Members == {"m1", "m2"}

\* The states of an _unmute_task in which it has not ended and no
\* cancellation of it is under way.
MutePending == {"created", "sleeping", "removing"}

\* task.cancel() on task t: a task that has not run yet ends without running
\* its body; a task waiting at an await gets CancelledError there when the
\* loop runs it next; a task that has ended is left as it is.
Cancel(tasks, t) ==
    [tasks EXCEPT ![t].pc =
        CASE @ = "created" -> "cancelled"
          [] @ \in {"sleeping", "removing"} -> "unwinding"
          [] OTHER -> @]

\* finally: self._active_mutes.pop(member.id, None), run by task t
PopInFinally(t) == Del(active_mutes, mute_tasks[t].member)

MuteStepUnchanged ==
    UNCHANGED <<settings, heap, irc_clients, sup, irc_reconnect_count,
                error_count, last_error_time, message_count, now, connects,
                drops, sendcall, next_msg, irc_sent, dropped, discord_ready,
                health, inbound_vars, session_vars, lifecycle_vars, call_vars,
                chunk, uptime, store_vars, log_vars>>

\* _schedule_unmute(guild, member, seconds), called by the mute command
ScheduleUnmute(member) ==
    LET cancelled == IF member \in DOMAIN active_mutes
                     THEN Cancel(mute_tasks, active_mutes[member])
                     ELSE mute_tasks
    IN /\ Len(mute_tasks) < MaxMuteTasks
       /\ mute_tasks' = Append(cancelled, [member |-> member, pc |-> "created"])
       /\ active_mutes' = Put(active_mutes, member, Len(mute_tasks) + 1)
       /\ MuteStepUnchanged

\* The loop runs _unmute_task t for the first time: await asyncio.sleep(...)
UnmuteTaskStart(t) ==
    /\ mute_tasks[t].pc = "created"
    /\ mute_tasks' = [mute_tasks EXCEPT ![t].pc = "sleeping"]
    /\ UNCHANGED active_mutes
    /\ MuteStepUnchanged

\* The sleep of task t is over: the member has the muted role and the task
\* awaits member.remove_roles, or has not and the task ends through finally.
UnmuteSleepOver(t, has_role) ==
    /\ mute_tasks[t].pc = "sleeping"
    /\ IF has_role
       THEN /\ mute_tasks' = [mute_tasks EXCEPT ![t].pc = "removing"]
            /\ UNCHANGED active_mutes
       ELSE /\ mute_tasks' = [mute_tasks EXCEPT ![t].pc = "done"]
            /\ active_mutes' = PopInFinally(t)
    /\ MuteStepUnchanged

\* remove_roles and log_action of task t are over, or raised: finally.
UnmuteRemoveDone(t) ==
    /\ mute_tasks[t].pc = "removing"
    /\ mute_tasks' = [mute_tasks EXCEPT ![t].pc = "done"]
    /\ active_mutes' = PopInFinally(t)
    /\ MuteStepUnchanged

\* The loop runs the cancelled task t: CancelledError at its await, finally.
UnmuteTaskUnwinds(t) ==
    /\ mute_tasks[t].pc = "unwinding"
    /\ mute_tasks' = [mute_tasks EXCEPT ![t].pc = "cancelled"]
    /\ active_mutes' = PopInFinally(t)
    /\ MuteStepUnchanged

\* The unmute command: if task := self._active_mutes.pop(member.id, None):
\* task.cancel()
Unmute(member) ==
    /\ member \in DOMAIN active_mutes
    /\ mute_tasks' = Cancel(mute_tasks, active_mutes[member])
    /\ active_mutes' = Del(active_mutes, member)
    /\ MuteStepUnchanged

\* A new ModerationCog.
InitMutes ==
    /\ InitUtil
    /\ chunk = NoChunk
    /\ uptime = NoUptime

\* Mutes and unmutes of the members while the tasks run.
NextMutes ==
    \/ \E member \in Members : ScheduleUnmute(member)
    \/ \E t \in DOMAIN mute_tasks : UnmuteTaskStart(t)
    \/ \E t \in DOMAIN mute_tasks, has_role \in BOOLEAN : UnmuteSleepOver(t, has_role)
    \/ \E t \in DOMAIN mute_tasks : UnmuteRemoveDone(t)
    \/ \E t \in DOMAIN mute_tasks : UnmuteTaskUnwinds(t)
    \/ \E member \in Members : Unmute(member)

SpecMutes == InitMutes /\ [][NextMutes]_vars

\* The pending timed-unmute tasks of a member.
PendingUnmutes(member) ==
    {t \in DOMAIN mute_tasks :
         mute_tasks[t].member = member /\ mute_tasks[t].pc \in MutePending}

\* C40: every member has at most one pending timed-unmute task, and the
\* registry holds it under the member's id.
C40_RegistryHoldsPendingTask ==
    \A member \in Members :
        /\ Cardinality(PendingUnmutes(member)) <= 1
        /\ \A t \in PendingUnmutes(member) :
               /\ member \in DOMAIN active_mutes
               /\ active_mutes[member] = t

====
